---- MODULE Spec2Model ----
(***************************************************************************)
(* A model of the cube package of prism (src/unnamed/part_003): the Sample *)
(* and Cube types, the in-place combinators (Scale, Clamp, Sum, Blend,     *)
(* Rescale), the trilinear interpolator and the textual grid codec         *)
(* (WriteTo / Load).                                                       *)
(*                                                                         *)
(* float64 values are modelled as exact fractions n/d extended with the    *)
(* IEEE-754 special values: +Inf is 1/0, -Inf is -1/0 and NaN is 0/0.      *)
(* Division by zero, Inf-Inf, 0*Inf and comparisons with NaN behave as in  *)
(* Go.  The rounding of the individual float64 operations and the sign of  *)
(* zero are not modelled.                                                  *)
(***************************************************************************)
EXTENDS Integers, Sequences, FiniteSets, TLC

---------------------------------------------------------------------------
(* float64 *)

Abs(x) == IF x < 0 THEN -x ELSE x

Sign(x) == IF x < 0 THEN -1 ELSE IF x > 0 THEN 1 ELSE 0

\* An operator that uses an argument more than once takes its value first
\* (x \in {a}): the argument is then computed once, however deep the
\* expression it is given.
RECURSIVE Gcd(_, _)
Gcd(a, b) == CHOOSE g \in { IF y = 0 THEN x ELSE Gcd(y, x % y) : x \in {a}, y \in {b} } : TRUE

\* the float64 with value n/d (d may be negative or zero)
Norm(n, d) ==
    IF d = 0 THEN [n |-> Sign(n), d |-> 0]
    ELSE CHOOSE r \in { [n |-> (Sign(d) * n) \div g, d |-> (Sign(d) * d) \div g] :
                        g \in {Gcd(Abs(n), Abs(d))} } : TRUE

F(n, d) == Norm(n, d)
I(k) == [n |-> k, d |-> 1]

NaN == [n |-> 0, d |-> 0]
PosInf == [n |-> 1, d |-> 0]
NegInf == [n |-> -1, d |-> 0]

IsNaN(a) == a.d = 0 /\ a.n = 0
IsInf(a) == a.d = 0 /\ a.n # 0
IsFinite(a) == a.d # 0

\* a + b
FAddValues(a, b) ==
    IF a.d = 0 /\ b.d = 0
    THEN (IF a.n = b.n THEN a ELSE NaN)
    ELSE CHOOSE r \in { Norm(a.n * (b.d \div g) + b.n * (a.d \div g), (a.d \div g) * b.d) :
                        g \in {Gcd(a.d, b.d)} } : TRUE

FAdd(a, b) == CHOOSE r \in { FAddValues(x, y) : x \in {a}, y \in {b} } : TRUE

FNeg(a) == CHOOSE r \in { [n |-> -x.n, d |-> x.d] : x \in {a} } : TRUE

\* a - b
FSub(a, b) == FAdd(a, FNeg(b))

\* a * b
FMulValues(a, b) ==
    IF a.d = 0 \/ b.d = 0 THEN Norm(a.n * b.n, 0)
    ELSE CHOOSE r \in { Norm((a.n \div g1) * (b.n \div g2), (a.d \div g2) * (b.d \div g1)) :
                        g1 \in {Gcd(Abs(a.n), b.d)}, g2 \in {Gcd(Abs(b.n), a.d)} } : TRUE

FMul(a, b) == CHOOSE r \in { FMulValues(x, y) : x \in {a}, y \in {b} } : TRUE

\* 1 / b
FRecip(b) ==
    CHOOSE r \in { IF y.n < 0 THEN [n |-> -y.d, d |-> -y.n] ELSE [n |-> y.d, d |-> y.n] :
                   y \in {b} } : TRUE

\* a / b
FDiv(a, b) == FMul(a, FRecip(b))

\* a < b
FLtValues(a, b) ==
    IF IsNaN(a) \/ IsNaN(b) THEN FALSE
    ELSE IF a.d = 0 /\ b.d = 0 THEN a.n < b.n
    ELSE a.n * b.d < b.n * a.d

FLt(a, b) == \E x \in {a}, y \in {b} : FLtValues(x, y)

\* a > b
FGt(a, b) == FLt(b, a)

\* a == b
FEq(a, b) == \E x \in {a}, y \in {b} : ~IsNaN(x) /\ ~IsNaN(y) /\ x = y

\* a <= b
FLe(a, b) == \E x \in {a}, y \in {b} : FLt(x, y) \/ FEq(x, y)

---------------------------------------------------------------------------
(* int: a 64-bit integer hi*2^63 + lo (mod 2^64) with lo small, so that the *)
(* sums and products of getSample wrap as they do in Go.                    *)

Int64(k) == [hi |-> 0, lo |-> k]

\* the most negative int, -2^63
MinInt64 == [hi |-> 1, lo |-> 0]

\* a + b
IAdd(a, b) == [hi |-> (a.hi + b.hi) % 2, lo |-> a.lo + b.lo]

\* a * n for a small n
IMul(a, n) == [hi |-> (a.hi * n) % 2, lo |-> a.lo * n]

\* a < 0
INeg(a) == IF a.hi = 1 THEN a.lo >= 0 ELSE a.lo < 0

\* a >= n for a small n >= 0
IGe(a, n) == ~INeg(a) /\ (a.hi = 1 \/ a.lo >= n)

\* float64(a); -Inf stands for the values near -2^63
ToFloat(a) == IF a.hi = 1 THEN NegInf ELSE I(a.lo)

\* int(a): truncation towards zero; nanInt is what the build makes of a
\* value that an int cannot hold
IntOf(a, nanInt) ==
    CHOOSE r \in { IF x.d = 0 THEN nanInt
                   ELSE Int64(IF x.n >= 0 THEN x.n \div x.d ELSE -((-x.n) \div x.d)) :
                   x \in {a} } : TRUE

---------------------------------------------------------------------------
(* Sample *)

Smp(r, g, b) == [R |-> r, G |-> g, B |-> b]

ZeroSample == Smp(I(0), I(0), I(0))

\* func (s *Sample) Sum(s2 Sample): the new value of *s
SampleSum(s, s2) ==
    Smp(FAdd(s.R, s2.R), FAdd(s.G, s2.G), FAdd(s.B, s2.B))

\* Sample.Blend that weighs both operands with w1
SampleBlendOneWeight(s, s2, w1, w2) ==
    Smp(FAdd(FMul(s.R, w1), FMul(s2.R, w1)),
        FAdd(FMul(s.G, w1), FMul(s2.G, w1)),
        FAdd(FMul(s.B, w1), FMul(s2.B, w1)))

\* func (s *Sample) Blend(s2 Sample, w1, w2 float64): the new value of *s
SampleBlend(s, s2, w1, w2) ==
    Smp(FAdd(FMul(s.R, w1), FMul(s2.R, w2)),
        FAdd(FMul(s.G, w1), FMul(s2.G, w2)),
        FAdd(FMul(s.B, w1), FMul(s2.B, w2)))

\* a Sample.Clamp that saturates each channel to [0,1]
SampleClampSaturating(s, mn, mx) ==
    LET sat(x) == IF FLt(x, I(0)) THEN I(0) ELSE IF FGt(x, I(1)) THEN I(1) ELSE x
    IN  Smp(sat(FDiv(FSub(s.R, mn.R), FSub(mx.R, mn.R))),
            sat(FDiv(FSub(s.G, mn.G), FSub(mx.G, mn.G))),
            sat(FDiv(FSub(s.B, mn.B), FSub(mx.B, mn.B))))

\* func (s *Sample) Clamp(min, max Sample): the new value of *s
SampleClamp(s, mn, mx) ==
    Smp(FDiv(FSub(s.R, mn.R), FSub(mx.R, mn.R)),
        FDiv(FSub(s.G, mn.G), FSub(mx.G, mn.G)),
        FDiv(FSub(s.B, mn.B), FSub(mx.B, mn.B)))

\* func (s *Sample) Scale(v float64): the new value of *s
SampleScale(s, v) == Smp(FMul(s.R, v), FMul(s.G, v), FMul(s.B, v))

\* the general case of Sample.Rescale without the offset minVal
RescaleChannelNoOffset(x, minVal, globalRange, dmin, dmax) ==
    FAdd(dmin, FMul(FDiv(x, globalRange), FSub(dmax, dmin)))

\* one channel of Sample.Rescale's general case
RescaleChannel(x, minVal, globalRange, dmin, dmax) ==
    FAdd(dmin, FMul(FDiv(FSub(x, minVal), globalRange), FSub(dmax, dmin)))

\* one channel of Sample.Rescale's degenerate case
MidChannel(dmin, dmax) == FAdd(dmin, FDiv(FSub(dmax, dmin), I(2)))

\* func (s *Sample) Rescale(minVal, maxVal float64, domainMin, domainMax Sample)
SampleRescale(s, minVal, maxVal, domainMin, domainMax) ==
    IF FEq(maxVal, minVal)
    THEN Smp(MidChannel(domainMin.R, domainMax.R),
             MidChannel(domainMin.G, domainMax.G),
             MidChannel(domainMin.B, domainMax.B))
    ELSE LET globalRange == FSub(maxVal, minVal)
         IN  Smp(RescaleChannel(s.R, minVal, globalRange, domainMin.R, domainMax.R),
                 RescaleChannel(s.G, minVal, globalRange, domainMin.G, domainMax.G),
                 RescaleChannel(s.B, minVal, globalRange, domainMin.B, domainMax.B))

\* func min(a, b float64) float64
min(a, b) == CHOOSE r \in { IF FLt(x, y) THEN x ELSE y : x \in {a}, y \in {b} } : TRUE

\* func max(a, b float64) float64
max(a, b) == CHOOSE r \in { IF FGt(x, y) THEN x ELSE y : x \in {a}, y \in {b} } : TRUE

---------------------------------------------------------------------------
(* Cube.  A Cube value is a record whose Samples field is a slice: the      *)
(* identifier of a backing array of the heap `arrays`.  Copying a Cube      *)
(* (a value receiver, a Cube argument) copies the identifier, so the copy   *)
(* shares the samples of the original.                                      *)

VARIABLES
    arrays,     \* the heap: backing array identifier -> sequence of Samples
    c,          \* the receiver Cube of the calls
    c2,         \* the Cube passed as the other operand
    call,       \* the last call: its name and arguments
    err,        \* the error that call returned
    pre,        \* arrays, c and c2 as they were when that call was made
    nops,       \* number of calls made so far
    nanInt,     \* what int(x) gives in this build for a NaN x
    result,     \* the value the last call returned, besides err
    text,       \* the contents of the reader / writer of the grid codec
    lut,        \* which LUT Apply / ApplyScaled is called on: "cube" (c) or "hald"
    hald,       \* the receiver HALD of the calls
    img,        \* the source image given to Apply / ApplyScaled
    out,        \* the output image that ApplyScaled allocates
    colours,    \* for each point of img, what processRowScaled computes for it
    pc,         \* where ApplyScaled is: "idle", "loop", "returned", "panic"
    nextY,      \* the loop variable y of ApplyScaled
    wg,         \* the counter of the sync.WaitGroup
    workers,    \* the goroutines started: the row and the next column of each
    writers,    \* history: for each output pixel, the workers that wrote it
    files       \* the files that the commands of main have created

applyVars == <<lut, hald, img, out, colours, pc, nextY, wg, workers, writers, files>>

vars == <<arrays, c, c2, call, err, pre, nops, nanInt, result, text, applyVars>>

MkCube(title, meta, size, dmin, dmax, samples) ==
    [Title |-> title, Meta |-> meta, LUT3Dsize |-> size,
     DomainMin |-> dmin, DomainMax |-> dmax, Samples |-> samples]

\* len(cb.Samples) in heap h
NumSamples(h, cb) == Len(h[cb.Samples])

\* the heap h with element i (1-based) of array a set to s
SetSample(h, a, i, s) == [h EXCEPT ![a] = [@ EXCEPT ![i] = s]]

\* for i := range c.Samples { c.Samples[i].Scale(v) }, from index i on
RECURSIVE ScaleLoop(_, _, _, _)
ScaleLoop(h, a, v, i) ==
    IF i > Len(h[a]) THEN h
    ELSE ScaleLoop(SetSample(h, a, i, SampleScale(h[a][i], v)), a, v, i + 1)

\* a Cube.Scale without the check of v
CubeScaleUnchecked(h, cb, v) == ScaleLoop(h, cb.Samples, v, 1)

\* func (c *Cube) Scale(v float64) *Cube: the heap after the call
CubeScale(h, cb, v) ==
    IF FLe(v, I(0)) \/ FGt(v, I(1)) THEN h ELSE ScaleLoop(h, cb.Samples, v, 1)

\* for i := range c.Samples { c.Samples[i].Clamp(c.DomainMin, c.DomainMax) }
RECURSIVE ClampLoop(_, _, _, _, _)
ClampLoop(h, a, mn, mx, i) ==
    IF i > Len(h[a]) THEN h
    ELSE ClampLoop(SetSample(h, a, i, SampleClamp(h[a][i], mn, mx)), a, mn, mx, i + 1)

\* a Clamp that reslices c.Samples to one sample less
CubeClampDropping(h, cb) ==
    [h EXCEPT ![cb.Samples] =
        SubSeq(ClampLoop(h, cb.Samples, cb.DomainMin, cb.DomainMax, 1)[cb.Samples],
               1, Len(h[cb.Samples]) - 1)]

\* func (c *Cube) Clamp() *Cube: the heap after the call
CubeClamp(h, cb) == ClampLoop(h, cb.Samples, cb.DomainMin, cb.DomainMax, 1)

\* for i := range c.Samples { c.Samples[i].Sum(c2.Samples[i]) }
RECURSIVE SumLoop(_, _, _, _)
SumLoop(h, a, a2, i) ==
    IF i > Len(h[a]) THEN h
    ELSE SumLoop(SetSample(h, a, i, SampleSum(h[a][i], h[a2][i])), a, a2, i + 1)

\* the checks of Sum and Blend reporting every failure as ErrEmptyLut
SizeCheckOneError(h, cb, other) ==
    IF NumSamples(h, cb) = 0 \/ NumSamples(h, other) = 0 THEN "ErrEmptyLut"
    ELSE IF NumSamples(h, cb) # NumSamples(h, other) THEN "ErrEmptyLut"
    ELSE "nil"

\* the checks of Sum and Blend with the size comparison made first
SizeCheckSizeFirst(h, cb, other) ==
    IF NumSamples(h, cb) # NumSamples(h, other) THEN "ErrDifferentSampleSize"
    ELSE IF NumSamples(h, cb) = 0 \/ NumSamples(h, other) = 0 THEN "ErrEmptyLut"
    ELSE "nil"

\* the error Sum and Blend return for operands cb and other
SizeCheck(h, cb, other) ==
    IF NumSamples(h, cb) = 0 \/ NumSamples(h, other) = 0 THEN "ErrEmptyLut"
    ELSE IF NumSamples(h, cb) # NumSamples(h, other) THEN "ErrDifferentSampleSize"
    ELSE "nil"

\* func (c *Cube) Sum(c2 Cube) (*Cube, error): the heap and the error
CubeSum(h, cb, other) ==
    LET e == SizeCheck(h, cb, other)
    IN  IF e # "nil" THEN [heap |-> h, err |-> e]
        ELSE [heap |-> SumLoop(h, cb.Samples, other.Samples, 1), err |-> "nil"]

\* for i := range c.Samples { c.Samples[i].Blend(c2.Samples[i], w1, w2) }
RECURSIVE BlendLoop(_, _, _, _, _, _)
BlendLoop(h, a, a2, w1, w2, i) ==
    IF i > Len(h[a]) THEN h
    ELSE BlendLoop(SetSample(h, a, i, SampleBlend(h[a][i], h[a2][i], w1, w2)),
                   a, a2, w1, w2, i + 1)

\* w1 := i1 / total
BlendW1(i1, i2) == FDiv(i1, FAdd(i1, i2))

\* w2 := i2 / total
BlendW2(i1, i2) == FDiv(i2, FAdd(i1, i2))

\* func (c *Cube) Blend(c2 Cube, i1, i2 float64) (*Cube, error)
CubeBlend(h, cb, other, i1, i2) ==
    LET e == SizeCheck(h, cb, other)
    IN  IF e # "nil" THEN [heap |-> h, err |-> e]
        ELSE [heap |-> BlendLoop(h, cb.Samples, other.Samples,
                                 BlendW1(i1, i2), BlendW2(i1, i2), 1),
              err |-> "nil"]

\* the loop of minmax from sample i on, with the running minimum and maximum
RECURSIVE MinMaxLoop(_, _, _, _)
MinMaxLoop(ss, i, minVal, maxVal) ==
    IF i > Len(ss) THEN [minVal |-> minVal, maxVal |-> maxVal]
    ELSE LET s == ss[i]
         IN  MinMaxLoop(ss, i + 1,
                        min(minVal, min(min(s.R, s.G), s.B)),
                        max(maxVal, max(max(s.R, s.G), s.B)))

\* func (c Cube) minmax() (minVal, maxVal float64)
minmax(h, cb) ==
    LET ss == h[cb.Samples]
    IN  IF Len(ss) = 0 THEN [minVal |-> I(0), maxVal |-> I(1)]
        ELSE MinMaxLoop(ss, 1, ss[1].R, ss[1].R)

\* for i := range c.Samples { c.Samples[i].Rescale(minVal, maxVal, ...) }
RECURSIVE RescaleLoop(_, _, _, _, _, _)
RescaleLoop(h, a, mm, dmin, dmax, i) ==
    IF i > Len(h[a]) THEN h
    ELSE RescaleLoop(SetSample(h, a, i,
                               SampleRescale(h[a][i], mm.minVal, mm.maxVal, dmin, dmax)),
                     a, mm, dmin, dmax, i + 1)

\* func (c *Cube) Rescale() *Cube: the heap after the call
CubeRescale(h, cb) ==
    RescaleLoop(h, cb.Samples, minmax(h, cb), cb.DomainMin, cb.DomainMax, 1)

---------------------------------------------------------------------------
(* Cube.interpolate.  A call either returns a Sample or panics (an index    *)
(* out of range).                                                           *)

Returned(smp) == [panic |-> FALSE, s |-> smp]
Panic == [panic |-> TRUE, s |-> ZeroSample]

\* getSample with the axes in the opposite order
getSampleSwapped(h, cb, r, g, b) ==
    LET n == cb.LUT3Dsize
        idx == IAdd(IAdd(b, IMul(g, n)), IMul(IMul(r, n), n))
    IN  IF IGe(idx, NumSamples(h, cb)) THEN Returned(ZeroSample)
        ELSE IF INeg(idx) THEN Panic
        ELSE Returned(h[cb.Samples][idx.lo + 1])

\* func (c Cube) getSample(r, g, b int) Sample
getSample(h, cb, r, g, b) ==
    LET n == cb.LUT3Dsize
        idx == IAdd(IAdd(r, IMul(g, n)), IMul(IMul(b, n), n))
    IN  IF IGe(idx, NumSamples(h, cb)) THEN Returned(ZeroSample)
        ELSE IF INeg(idx) THEN Panic
        ELSE Returned(h[cb.Samples][idx.lo + 1])

\* interpolateSamples that adds t*s2 instead of t*(s2 - s1)
interpolateSamplesNoDiff(s1, s2, t) ==
    Smp(FAdd(s1.R, FMul(t, s2.R)),
        FAdd(s1.G, FMul(t, s2.G)),
        FAdd(s1.B, FMul(t, s2.B)))

\* func interpolateSamples(s1, s2 Sample, t float64) Sample
interpolateSamples(s1, s2, t) ==
    Smp(FAdd(s1.R, FMul(t, FSub(s2.R, s1.R))),
        FAdd(s1.G, FMul(t, FSub(s2.G, s1.G))),
        FAdd(s1.B, FMul(t, FSub(s2.B, s1.B))))

\* the cube coordinate of x without the clamp to [0, size]
cubeCoordUnclamped(x, dmin, dmax, size) ==
    FMul(FDiv(FSub(x, dmin), FSub(dmax, dmin)), size)

\* rIdx: the input x normalized to cube coordinates and clamped to [0, size]
cubeCoord(x, dmin, dmax, size) ==
    max(I(0), min(size, FMul(FDiv(FSub(x, dmin), FSub(dmax, dmin)), size)))

\* r0, r1 and rFrac of one axis
axis(x, dmin, dmax, size, nanI) ==
    LET idx == cubeCoord(x, dmin, dmax, size)
        i0 == IntOf(idx, nanI)
        i1 == min(ToFloat(IAdd(i0, Int64(1))), size)
    IN  [i0 |-> i0, i1 |-> IntOf(i1, nanI), frac |-> FSub(idx, ToFloat(i0))]

\* func (c Cube) interpolate(r, g, b float64) Sample
interpolate(h, cb, r, g, b, nanI) ==
    LET size == I(cb.LUT3Dsize - 1)
        ar == axis(r, cb.DomainMin.R, cb.DomainMax.R, size, nanI)
        ag == axis(g, cb.DomainMin.G, cb.DomainMax.G, size, nanI)
        ab == axis(b, cb.DomainMin.B, cb.DomainMax.B, size, nanI)
        c000 == getSample(h, cb, ar.i0, ag.i0, ab.i0)
        c001 == getSample(h, cb, ar.i0, ag.i0, ab.i1)
        c010 == getSample(h, cb, ar.i0, ag.i1, ab.i0)
        c011 == getSample(h, cb, ar.i0, ag.i1, ab.i1)
        c100 == getSample(h, cb, ar.i1, ag.i0, ab.i0)
        c101 == getSample(h, cb, ar.i1, ag.i0, ab.i1)
        c110 == getSample(h, cb, ar.i1, ag.i1, ab.i0)
        c111 == getSample(h, cb, ar.i1, ag.i1, ab.i1)
    IN  IF \E x \in {c000, c001, c010, c011, c100, c101, c110, c111} : x.panic
        THEN Panic
        ELSE LET c00 == interpolateSamples(c000.s, c100.s, ar.frac)
                 c01 == interpolateSamples(c001.s, c101.s, ar.frac)
                 c10 == interpolateSamples(c010.s, c110.s, ar.frac)
                 c11 == interpolateSamples(c011.s, c111.s, ar.frac)
                 c0 == interpolateSamples(c00, c10, ag.frac)
                 c1 == interpolateSamples(c01, c11, ag.frac)
             IN  Returned(interpolateSamples(c0, c1, ab.frac))

---------------------------------------------------------------------------
(* The grid codec.  A text (a string, the bytes of a reader or writer) is a *)
(* sequence of symbols: single characters, the keywords of the format, and  *)
(* numerals.  A numeral written by %d is [t |-> "int"] with its value; a    *)
(* numeral written by %f is [t |-> "dec"] with its value in millionths,     *)
(* the 6 decimals that %f prints.                                           *)

Sym(t) == [t |-> t, v |-> 0]
Numeral(t, v) == [t |-> t, v |-> v]

SP == Sym("space")
NL == Sym("newline")
QUOTE == Sym("quote")
HASH == Sym("#")
LETTER == Sym("a")

\* 10^6: %f prints 6 decimals
FScale == 1000000

\* n/d rounded to the nearest integer, halves to the even one (d > 0)
RoundDiv(n, d) ==
    LET q == n \div d
        r == n % d
    IN  IF 2 * r > d \/ (2 * r = d /\ q % 2 = 1) THEN q + 1 ELSE q

\* fmt's %f of a float64
FormatF(a) ==
    IF IsNaN(a) THEN Sym("NaN")
    ELSE IF IsInf(a) THEN Numeral("Inf", a.n)
    ELSE Numeral("dec", RoundDiv(a.n * FScale, a.d))

IsFloatToken(x) == x.t \in {"int", "dec", "NaN", "Inf"}
IsIntToken(x) == x.t \in {"int", "dec"}

\* the float64 that Sscanf's %f reads from a numeral
ScanF(x) ==
    IF x.t = "int" THEN I(x.v)
    ELSE IF x.t = "dec" THEN F(x.v, FScale)
    ELSE IF x.t = "Inf" THEN [n |-> x.v, d |-> 0]
    ELSE NaN

\* the int that Sscanf's %d reads from a numeral: the digits before the point
ScanD(x) ==
    IF x.t = "int" THEN x.v
    ELSE IF x.v >= 0 THEN x.v \div FScale ELSE -((-x.v) \div FScale)

\* func (s Sample) String() string
SampleString(s) == <<FormatF(s.R), SP, FormatF(s.G), SP, FormatF(s.B)>>

\* the sample lines written last sample first
RECURSIVE WriteSamplesReversed(_, _)
WriteSamplesReversed(ss, i) ==
    IF i > Len(ss) THEN <<>>
    ELSE WriteSamplesReversed(ss, i + 1) \o SampleString(ss[i]) \o <<NL>>

\* the sample lines of WriteTo from sample i on
RECURSIVE WriteSamples(_, _)
WriteSamples(ss, i) ==
    IF i > Len(ss) THEN <<>>
    ELSE SampleString(ss[i]) \o <<NL>> \o WriteSamples(ss, i + 1)

\* func (c Cube) WriteTo(w io.Writer): what is written to w
WriteTo(h, cb) ==
    (IF cb.Title # <<>> THEN <<Sym("TITLE"), SP, QUOTE>> \o cb.Title \o <<QUOTE, NL>>
     ELSE <<>>)
    \o (IF cb.Meta # <<>> THEN cb.Meta \o <<NL>> ELSE <<>>)
    \o <<Sym("LUT_3D_SIZE"), SP, Numeral("int", cb.LUT3Dsize), NL, NL>>
    \o <<Sym("DOMAIN_MIN"), SP>> \o SampleString(cb.DomainMin) \o <<NL>>
    \o <<Sym("DOMAIN_MAX"), SP>> \o SampleString(cb.DomainMax) \o <<NL, NL>>
    \o WriteSamples(h[cb.Samples], 1)

\* strings.Index(s, x) as a 1-based position, 0 when x is not in s
Index(s, x) ==
    IF \E i \in 1..Len(s) : s[i] = x
    THEN CHOOSE i \in 1..Len(s) : s[i] = x /\ \A j \in 1..(i - 1) : s[j] # x
    ELSE 0

\* strings.Index used where LastIndex is meant
LastIndexAsIndex(s, x) == Index(s, x)

\* strings.LastIndex(s, x) as a 1-based position, 0 when x is not in s
LastIndex(s, x) ==
    IF \E i \in 1..Len(s) : s[i] = x
    THEN CHOOSE i \in 1..Len(s) : s[i] = x /\ \A j \in (i + 1)..Len(s) : s[j] # x
    ELSE 0

\* the lines bufio.Scanner gives for a text
RECURSIVE ScanLines(_)
ScanLines(t) ==
    IF t = <<>> THEN <<>>
    ELSE LET i == Index(t, NL)
         IN  IF i = 0 THEN <<t>>
             ELSE <<SubSeq(t, 1, i - 1)>> \o ScanLines(SubSeq(t, i + 1, Len(t)))

\* s without its leading spaces
RECURSIVE TrimLeft(_)
TrimLeft(s) == IF s # <<>> /\ Head(s) = SP THEN TrimLeft(Tail(s)) ELSE s

\* s without its trailing spaces
RECURSIVE TrimRight(_)
TrimRight(s) ==
    IF s # <<>> /\ s[Len(s)] = SP THEN TrimRight(SubSeq(s, 1, Len(s) - 1)) ELSE s

\* strings.TrimSpace
TrimSpace(s) == TrimRight(TrimLeft(s))

\* strings.Fields: the maximal runs of symbols that are not spaces
RECURSIVE Fields(_)
Fields(s) ==
    LET t == TrimLeft(s)
    IN  IF t = <<>> THEN <<>>
        ELSE LET i == Index(t, SP)
             IN  IF i = 0 THEN <<t>>
                 ELSE <<SubSeq(t, 1, i - 1)>> \o Fields(SubSeq(t, i, Len(t)))

\* Sscanf of k numerals, each after optional spaces, from the start of s:
\* ok and the numerals read (input left over is ignored)
RECURSIVE Sscanf(_, _)
Sscanf(s, k) ==
    IF k = 0 THEN [ok |-> TRUE, vals |-> <<>>]
    ELSE LET t == TrimLeft(s)
         IN  IF t = <<>> \/ ~IsFloatToken(Head(t)) THEN [ok |-> FALSE, vals |-> <<>>]
             ELSE LET rest == Sscanf(Tail(t), k - 1)
                  IN  [ok |-> rest.ok, vals |-> <<Head(t)>> \o rest.vals]

\* the state of Load between two lines: the Cube built so far, its samples,
\* and the error Load returns, "nil" while it has none
LoadStart ==
    [Title |-> <<>>, Meta |-> <<>>, LUT3Dsize |-> 0,
     DomainMin |-> ZeroSample, DomainMax |-> ZeroSample, samples |-> <<>>, err |-> "nil"]

\* a Load that skips a line it cannot read instead of returning an error
FailedSilently(e) == LoadStart

Failed(e) == [LoadStart EXCEPT !.err = e]

\* the three floats of a line after its first n symbols, as a Sample
ScanSample(line, n) ==
    LET r == Sscanf(SubSeq(line, n + 1, Len(line)), 3)
    IN  [ok |-> r.ok,
         s |-> IF r.ok THEN Smp(ScanF(r.vals[1]), ScanF(r.vals[2]), ScanF(r.vals[3]))
               ELSE ZeroSample]

\* the body of Load's loop for one line of the scanner
LoadLine(st, raw) ==
    LET line == TrimSpace(raw)
        fields == Fields(line)
    IN  IF line = <<>> THEN st
        ELSE IF fields[1] = <<Sym("TITLE")>>
        THEN LET start == Index(line, QUOTE)
                 end == LastIndex(line, QUOTE)
             IN  IF start # 0 /\ end > start
                 THEN [st EXCEPT !.Title = SubSeq(line, start + 1, end - 1)]
                 ELSE st
        ELSE IF fields[1] = <<Sym("LUT_3D_SIZE")>>
        THEN LET r == Sscanf(Tail(line), 1)
             IN  IF r.ok /\ IsIntToken(r.vals[1])
                 THEN [st EXCEPT !.LUT3Dsize = ScanD(r.vals[1])]
                 ELSE Failed("scan error")
        ELSE IF fields[1] = <<Sym("DOMAIN_MIN")>>
        THEN LET r == ScanSample(line, 1)
             IN  IF r.ok THEN [st EXCEPT !.DomainMin = r.s] ELSE Failed("scan error")
        ELSE IF fields[1] = <<Sym("DOMAIN_MAX")>>
        THEN LET r == ScanSample(line, 1)
             IN  IF r.ok THEN [st EXCEPT !.DomainMax = r.s] ELSE Failed("scan error")
        ELSE IF Head(line) = HASH
        THEN [st EXCEPT !.Meta = (IF st.Meta # <<>> THEN st.Meta \o <<NL>> ELSE <<>>) \o line]
        ELSE IF Len(fields) = 3
        THEN LET r == ScanSample(line, 0)
             IN  IF r.ok THEN [st EXCEPT !.samples = Append(st.samples, r.s)]
                 ELSE Failed("scan error")
        ELSE Failed("ErrUnrecognisedLine")

\* for scanner.Scan() { ... } over the lines from line i on
RECURSIVE LoadLoop(_, _, _)
LoadLoop(st, lines, i) ==
    IF i > Len(lines) \/ st.err # "nil" THEN st
    ELSE LoadLoop(LoadLine(st, lines[i]), lines, i + 1)

\* func Load(r io.Reader) (Cube, error): the Cube, its samples and the error
Load(t) == LoadLoop(LoadStart, ScanLines(t), 1)

---------------------------------------------------------------------------
(* Images.  An image.Image is a record of its bounds (Rect) and, for each   *)
(* point <<x, y>> of them, the colour as Color.RGBA() returns it: four      *)
(* alpha-premultiplied 16-bit values r, g, b, a.  An *image.RGBA keeps four *)
(* 8-bit values R, G, B, A per point.                                       *)

\* image.Rect(x0, y0, x1, y1)
Rectangle(x0, y0, x1, y1) ==
    [Min |-> [X |-> x0, Y |-> y0], Max |-> [X |-> x1, Y |-> y1]]

\* the points <<x, y>> that are in the rectangle r
Points(r) == (r.Min.X..(r.Max.X - 1)) \X (r.Min.Y..(r.Max.Y - 1))

\* image.NewRGBA(r)
NewRGBA(r) ==
    [Rect |-> r, Pix |-> [p \in Points(r) |-> [R |-> 0, G |-> 0, B |-> 0, A |-> 0]]]

\* func (p *RGBA) SetRGBA(x, y int, c color.RGBA): the image after the call
SetRGBA(m, x, y, col) ==
    IF <<x, y>> \in Points(m.Rect) THEN [m EXCEPT !.Pix[<<x, y>>] = col] ELSE m

\* m.At(x, y).RGBA()
At(m, x, y) ==
    IF <<x, y>> \in Points(m.Rect) THEN m.Pix[<<x, y>>]
    ELSE [r |-> 0, g |-> 0, b |-> 0, a |-> 0]

\* uint8(a) of a float64 a: truncation; nanI is what the build makes of a
\* value that an integer cannot hold
Uint8(a, nanI) ==
    CHOOSE r \in { IF x.d = 0 THEN nanI.lo % 256
                   ELSE (IF x.n >= 0 THEN x.n \div x.d ELSE -((-x.n) \div x.d)) % 256 :
                   x \in {a} } : TRUE

\* an intensity that is not clamped
clampIntensityNone(t) == t

\* intensity = max(0, min(1, intensity))
clampIntensity(t) == max(I(0), min(I(1), t))

\* the body of the loop of Cube.processRowScaled for the source colour px:
\* the colour it sets, or the panic of interpolate
cubePixel(h, cb, px, t, nanI) ==
    LET \* blend, back to [0,1], clamp, and the colour that is set
        colourOf(domainRange, rgbLut, res) ==
            LET blended(ch) == FAdd(FMul(rgbLut[ch], FSub(I(1), t)), FMul(res.s[ch], t))
                outOf(ch) == max(I(0), min(I(1), FDiv(FSub(blended(ch), cb.DomainMin[ch]),
                                                      domainRange[ch])))
            IN  [panic |-> res.panic,
                 col |-> IF res.panic THEN [R |-> 0, G |-> 0, B |-> 0, A |-> 0]
                         ELSE [R |-> Uint8(FMul(outOf("R"), I(255)), nanI),
                               G |-> Uint8(FMul(outOf("G"), I(255)), nanI),
                               B |-> Uint8(FMul(outOf("B"), I(255)), nanI),
                               A |-> px.a \div 257]]
        \* result := c.interpolate(rLut, gLut, bLut)
        lookup(domainRange, rgbLut) ==
            CHOOSE r \in { colourOf(domainRange, rgbLut, res) :
                           res \in { interpolate(h, cb, rgbLut.R, rgbLut.G, rgbLut.B, nanI) } } : TRUE
        \* rLut := c.DomainMin.R + rNorm*domainRangeR, with rNorm := r / 65535
        inDomain(domainRange) ==
            CHOOSE r \in { lookup(domainRange, rgbLut) :
                           rgbLut \in { Smp(FAdd(cb.DomainMin.R, FMul(F(px.r, 65535), domainRange.R)),
                                            FAdd(cb.DomainMin.G, FMul(F(px.g, 65535), domainRange.G)),
                                            FAdd(cb.DomainMin.B, FMul(F(px.b, 65535), domainRange.B))) } } : TRUE
    IN  CHOOSE r \in { inDomain(domainRange) :
                       domainRange \in { Smp(FSub(cb.DomainMax.R, cb.DomainMin.R),
                                             FSub(cb.DomainMax.G, cb.DomainMin.G),
                                             FSub(cb.DomainMax.B, cb.DomainMin.B)) } } : TRUE

---------------------------------------------------------------------------
(* The hald package (src/unnamed/part_000).  A HALD is a record of its      *)
(* Image and its level.                                                     *)

\* func (h HALD) sample(r, g, b int) color.Color, as the RGBA() of the colour
sample(hd, r, g, b) ==
    LET N == hd.level
        cube == N * N
        size == N * N * N
        idx == b * cube * cube + g * cube + r
    IN  At(hd.Image, hd.Image.Rect.Min.X + (idx % size),
            hd.Image.Rect.Min.Y + (idx \div size))

\* func colorToFloat64(c color.Color) (r, g, b float64)
colorToFloat64(col) == Smp(F(col.r, 65535), F(col.g, 65535), F(col.b, 65535))

\* func lerp(r1, g1, b1, r2, g2, b2, t float64) (float64, float64, float64)
lerp(s1, s2, t) ==
    Smp(FAdd(s1.R, FMul(t, FSub(s2.R, s1.R))),
        FAdd(s1.G, FMul(t, FSub(s2.G, s1.G))),
        FAdd(s1.B, FMul(t, FSub(s2.B, s1.B))))

\* func interpolateSamples(c1, c2 color.Color, t float64) (r, g, b float64)
haldInterpolateSamples(col1, col2, t) == lerp(colorToFloat64(col1), colorToFloat64(col2), t)

\* an axis whose upper neighbour is not clamped
haldAxisUnclamped(top, v) ==
    CHOOSE ax \in { [i0 |-> x.n \div x.d, i1 |-> (x.n \div x.d) + 1,
                     frac |-> FSub(x, I(x.n \div x.d))] : x \in {FMul(v, I(top))} } : TRUE

\* one axis of Interpolate for a finite v >= 0: rF := r * cubeF with cubeF the
\* float64 of top, r0 := int(math.Floor(rF)), r1 := min(r0+1, top),
\* dr := rF - float64(r0)
haldAxis(top, v) ==
    CHOOSE ax \in { [i0 |-> x.n \div x.d,
                     i1 |-> IF (x.n \div x.d) + 1 < top THEN (x.n \div x.d) + 1 ELSE top,
                     frac |-> FSub(x, I(x.n \div x.d))] : x \in {FMul(v, I(top))} } : TRUE

\* func (h HALD) Interpolate(r, g, b float64) (float64, float64, float64),
\* for finite r, g, b >= 0
HALDInterpolate(hd, r, g, b) ==
    CHOOSE rgb \in
        { LET c00 == haldInterpolateSamples(sample(hd, ar.i0, ag.i0, ab.i0),
                                           sample(hd, ar.i1, ag.i0, ab.i0), ar.frac)
              c01 == haldInterpolateSamples(sample(hd, ar.i0, ag.i0, ab.i1),
                                           sample(hd, ar.i1, ag.i0, ab.i1), ar.frac)
              c10 == haldInterpolateSamples(sample(hd, ar.i0, ag.i1, ab.i0),
                                           sample(hd, ar.i1, ag.i1, ab.i0), ar.frac)
              c11 == haldInterpolateSamples(sample(hd, ar.i0, ag.i1, ab.i1),
                                           sample(hd, ar.i1, ag.i1, ab.i1), ar.frac)
          IN  lerp(lerp(c00, c10, ag.frac), lerp(c01, c11, ag.frac), ab.frac) :
          ar \in {haldAxis(hd.level * hd.level - 1, r)},
          ag \in {haldAxis(hd.level * hd.level - 1, g)},
          ab \in {haldAxis(hd.level * hd.level - 1, b)} } : TRUE

\* the body of the loop of HALD.processRowScaled for the source colour px:
\* the colour it sets
haldPixel(hd, px, t, nanI) ==
    LET norm == colorToFloat64(px)
        res == HALDInterpolate(hd, norm.R, norm.G, norm.B)
        blended(ch) ==
            max(I(0), min(I(1), FAdd(FMul(norm[ch], FSub(I(1), t)), FMul(res[ch], t))))
    IN  [R |-> Uint8(FMul(blended("R"), I(255)), nanI),
         G |-> Uint8(FMul(blended("G"), I(255)), nanI),
         B |-> Uint8(FMul(blended("B"), I(255)), nanI),
         A |-> px.a \div 257]

\* the bounds of an identity in the tiled layout
IdentityRectTiled(level) == Rectangle(0, 0, level * level * level, level * level)

\* the bounds of the image of Identity(level):
\* image.Rect(0, 0, size, size) with size := N * N * N
IdentityRect(level) == Rectangle(0, 0, level * level * level, level * level * level)

\* an Identity whose ramp is r/N^2 instead of r/(N^2 - 1)
IdentityShortRamp(level) ==
    LET cube == level * level
        size == level * level * level
        v(k) == ((k * 255) \div cube) * 257
    IN  [Image |-> [Rect |-> Rectangle(0, 0, size, size),
                    Pix |-> [p \in Points(Rectangle(0, 0, size, size)) |->
                               LET idx == p[2] * size + p[1]
                               IN  [r |-> v(idx % cube), g |-> v((idx \div cube) % cube),
                                    b |-> v(idx \div (cube * cube)), a |-> 65535]]],
         level |-> level]

\* func Identity(level int) HALD, for level >= 2.  The three loops visit the
\* indices idx = b*cube*cube + g*cube + r in increasing order and set the
\* pixel (idx % size, idx / size); a colour of the *image.RGBA is kept here
\* as its RGBA(), 257 times the 8-bit value.
Identity(level) ==
    LET cube == level * level
        size == level * level * level
        den == I(cube - 1)
        v(k) == Uint8(FMul(FDiv(I(k), den), I(255)), Int64(0)) * 257
    IN  [Image |-> [Rect |-> IdentityRect(level),
                    Pix |-> [p \in Points(IdentityRect(level)) |->
                               LET idx == p[2] * size + p[1]
                               IN  [r |-> v(idx % cube), g |-> v((idx \div cube) % cube),
                                    b |-> v(idx \div (cube * cube)), a |-> 65535]]],
         level |-> level]

\* an image without points
NoImage == [Rect |-> Rectangle(0, 0, 0, 0), Pix |-> <<>>]

\* no Apply / ApplyScaled is under way
NoApply ==
    /\ lut = "none"
    /\ hald = [Image |-> NoImage, level |-> 0]
    /\ img = NoImage
    /\ out = NoImage
    /\ colours = <<>>
    /\ files = {}
    /\ pc = "idle"
    /\ nextY = 0
    /\ wg = 0
    /\ workers = <<>>
    /\ writers = <<>>

---------------------------------------------------------------------------
(* The combinators as a state machine: a receiver c and another Cube c2,    *)
(* which is either a separate Cube or a copy of c sharing its samples, and  *)
(* up to MaxOps calls of Scale, Clamp, Sum, Blend and Rescale on c.         *)

MaxSamples == 2
MaxOps == 2

Half == F(1, 2)

Palette ==
    { Smp(Half, Half, Half),
      Smp(F(-1, 2), F(3, 2), I(1)) }

SampleSeqs == UNION { [1..n -> Palette] : n \in 0..MaxSamples }

UnitDomain == [min |-> ZeroSample, max |-> Smp(I(1), I(1), I(1))]

\* the domains a grid file can give a Cube: the usual one, one that differs
\* per channel, the one of a file without DOMAIN lines, and an inverted one
Domains ==
    { UnitDomain,
      [min |-> Smp(I(0), I(-1), Half), max |-> Smp(I(2), I(1), I(1))],
      [min |-> ZeroSample, max |-> ZeroSample],
      [min |-> Smp(I(1), I(1), I(1)), max |-> ZeroSample] }

ScaleArgs == { F(-1, 2), I(0), Half, I(1), I(2) }
WeightPairs == { <<I(1), I(1)>>, <<I(1), I(3)>>, <<I(3), I(1)>>,
                 <<I(1), I(-1)>>, <<I(-1), I(3)>>, <<I(0), I(0)>> }

\* the LUT3Dsize of a well-formed Cube of n samples, if there is one
LevelFor(n) == IF n = 0 THEN 0 ELSE IF n = 1 THEN 1 ELSE 2

NoCall == [op |-> "none", args |-> <<>>]

Snapshot == [arrays |-> arrays, c |-> c, c2 |-> c2]

InitOps ==
    /\ \E s1 \in SampleSeqs, s2 \in SampleSeqs, dom \in Domains, shared \in BOOLEAN :
          /\ shared => s2 = <<>>
          /\ arrays = (1 :> s1) @@ (2 :> s2)
          /\ c = MkCube(<<LETTER>>, <<HASH, LETTER>>, LevelFor(Len(s1)), dom.min, dom.max, 1)
          /\ c2 = IF shared THEN c
                  ELSE MkCube(<<>>, <<>>, LevelFor(Len(s2)), UnitDomain.min, UnitDomain.max, 2)
          /\ pre = [arrays |-> (1 :> s1) @@ (2 :> s2), c |-> c, c2 |-> c2]
    /\ call = NoCall
    /\ err = "nil"
    /\ nops = 0
    /\ nanInt = Int64(0)
    /\ result = "none"
    /\ text = <<>>
    /\ NoApply

Called(rec) ==
    /\ nops < MaxOps
    /\ call' = rec
    /\ pre' = Snapshot
    /\ nops' = nops + 1
    /\ result' = "c"
    /\ UNCHANGED <<c, c2, nanInt, text, applyVars>>

\* c.Scale(v)
Scale ==
    \E v \in ScaleArgs :
        /\ Called([op |-> "Scale", args |-> <<v>>])
        /\ arrays' = CubeScale(arrays, c, v)
        /\ err' = "nil"

\* c.Clamp()
Clamp ==
    /\ Called([op |-> "Clamp", args |-> <<>>])
    /\ arrays' = CubeClamp(arrays, c)
    /\ err' = "nil"

\* c.Sum(c2)
Sum ==
    /\ Called([op |-> "Sum", args |-> <<>>])
    /\ LET r == CubeSum(arrays, c, c2)
       IN  arrays' = r.heap /\ err' = r.err

\* c.Blend(c2, i1, i2)
Blend ==
    \E w \in WeightPairs :
        /\ Called([op |-> "Blend", args |-> w])
        /\ LET r == CubeBlend(arrays, c, c2, w[1], w[2])
           IN  arrays' = r.heap /\ err' = r.err

\* c.Rescale()
Rescale ==
    /\ Called([op |-> "Rescale", args |-> <<>>])
    /\ arrays' = CubeRescale(arrays, c)
    /\ err' = "nil"

NextOps == Scale \/ Clamp \/ Sum \/ Blend \/ Rescale

SpecOps == InitOps /\ [][NextOps]_vars

---------------------------------------------------------------------------
(* Claims about the combinators *)

PreSamples == pre.arrays[pre.c.Samples]
PreOther == pre.arrays[pre.c2.Samples]
PostSamples == arrays[c.Samples]

SumOrBlend == call.op \in {"Sum", "Blend"}

AllFinite(ss) ==
    \A i \in 1..Len(ss) : IsFinite(ss[i].R) /\ IsFinite(ss[i].G) /\ IsFinite(ss[i].B)

\* C2: Sum and Blend on two non-empty Cubes of different sample counts
\* return ErrDifferentSampleSize and leave every sample of both operands
\* as it was.
C2_SizeMismatchRejected ==
    (SumOrBlend /\ Len(PreSamples) # 0 /\ Len(PreOther) # 0
                /\ Len(PreSamples) # Len(PreOther))
        => (err = "ErrDifferentSampleSize" /\ arrays = pre.arrays)

C2_Witness ==
    /\ call.op = "Blend"
    /\ Len(PreSamples) = 1 /\ Len(PreOther) = 2
    /\ err = "ErrDifferentSampleSize"

\* C3: Sum and Blend return ErrEmptyLut whenever the receiver or the other
\* operand has no sample, also when the sample counts differ, and modify no
\* sample.
C3_EmptyRejectedFirst ==
    (SumOrBlend /\ (Len(PreSamples) = 0 \/ Len(PreOther) = 0))
        => (err = "ErrEmptyLut" /\ arrays = pre.arrays)

C3_Witness ==
    /\ call.op = "Sum"
    /\ Len(PreSamples) = 0 /\ Len(PreOther) = 2
    /\ err = "ErrEmptyLut"

\* C4: blending a non-empty Cube with a copy of itself that shares its
\* samples, with positive weights, leaves every sample at the value it had
\* before the call.
C4_SelfBlendIsNoOp ==
    (/\ call.op = "Blend"
     /\ pre.c2.Samples = pre.c.Samples
     /\ Len(PreSamples) # 0
     /\ FGt(call.args[1], I(0)) /\ FGt(call.args[2], I(0)))
        => (err = "nil" /\ PostSamples = PreSamples)

C4_Witness ==
    /\ call.op = "Blend"
    /\ pre.c2.Samples = pre.c.Samples
    /\ call.args[1] = I(1) /\ call.args[2] = I(3)
    /\ Len(PreSamples) = 2
    /\ PreSamples[1] # PreSamples[2]
    /\ PostSamples = PreSamples

\* a*i1/(i1+i2) + b*i2/(i1+i2), computed as (a*i1 + b*i2)/(i1+i2)
WeightedMean(a, b, i1, i2) ==
    FDiv(FAdd(FMul(a, i1), FMul(b, i2)), FAdd(i1, i2))

WeightedMeanSample(s, s2, i1, i2) ==
    Smp(WeightedMean(s.R, s2.R, i1, i2),
        WeightedMean(s.G, s2.G, i1, i2),
        WeightedMean(s.B, s2.B, i1, i2))

\* C5: for same-size non-empty Cubes, Blend sets every receiver sample to
\* the weighted mean a*w1/(w1+w2) + b*w2/(w1+w2), and the two effective
\* weights sum to 1, for every pair of weights the call accepts.
C5_BlendIsNormalisedMean ==
    (call.op = "Blend" /\ err = "nil" /\ AllFinite(PreSamples) /\ AllFinite(PreOther))
        => /\ FEq(FAdd(BlendW1(call.args[1], call.args[2]), BlendW2(call.args[1], call.args[2])), I(1))
           /\ \A i \in 1..Len(PreSamples) :
                 PostSamples[i] =
                     WeightedMeanSample(PreSamples[i], PreOther[i], call.args[1], call.args[2])

\* the smallest and the largest channel value of the samples ss
ChannelValues(ss) == UNION { {ss[i].R, ss[i].G, ss[i].B} : i \in 1..Len(ss) }
IsGlobalMin(ss, x) == \A y \in ChannelValues(ss) : FLe(x, y)
IsGlobalMax(ss, x) == \A y \in ChannelValues(ss) : FLe(y, x)

Channels == {"R", "G", "B"}

C14_ScaleOnlyInRange ==
    call.op = "Scale" =>
        /\ result = "c" /\ c = pre.c
        /\ Len(PostSamples) = Len(PreSamples)
        /\ IF FGt(call.args[1], I(0)) /\ FLe(call.args[1], I(1))
           THEN \A i \in 1..Len(PreSamples) : \A ch \in Channels :
                   PostSamples[i][ch] = FMul(PreSamples[i][ch], call.args[1])
           ELSE PostSamples = PreSamples

C14_Witness ==
    /\ call.op = "Scale" /\ call.args[1] = Half
    /\ Len(PreSamples) = 2
    /\ PreSamples[2] = Smp(F(-1, 2), F(3, 2), I(1))
    /\ PostSamples[2] = Smp(F(-1, 4), F(3, 4), Half)
    /\ PostSamples[1] # PreSamples[1]

\* v is outside [mn, mx]
Outside(v, mn, mx) == FLt(v, mn) \/ FGt(v, mx)

ClampRemaps ==
    /\ Len(PostSamples) = Len(PreSamples)
    /\ \A i \in 1..Len(PreSamples) : \A ch \in Channels :
          PostSamples[i][ch] =
              FDiv(FSub(PreSamples[i][ch], c.DomainMin[ch]),
                   FSub(c.DomainMax[ch], c.DomainMin[ch]))

\* C15 as stated: Clamp replaces every channel value v by
\* (v - DomainMin)/(DomainMax - DomainMin) of its channel, and a value
\* outside [DomainMin, DomainMax] gives a result outside [0,1].
C15_ClampNeverInsideUnit ==
    call.op = "Clamp" =>
        /\ ClampRemaps
        /\ \A i \in 1..Len(PreSamples) : \A ch \in Channels :
              Outside(PreSamples[i][ch], c.DomainMin[ch], c.DomainMax[ch])
                  => Outside(PostSamples[i][ch], I(0), I(1))

\* C15 amended: Clamp replaces every channel value v by
\* (v - DomainMin)/(DomainMax - DomainMin) of its channel, and on a channel
\* with DomainMax > DomainMin a value outside [DomainMin, DomainMax] gives a
\* result outside [0,1].
C15_ClampDoesNotSaturate ==
    call.op = "Clamp" =>
        /\ ClampRemaps
        /\ \A i \in 1..Len(PreSamples) : \A ch \in Channels :
              (FGt(c.DomainMax[ch], c.DomainMin[ch])
                 /\ Outside(PreSamples[i][ch], c.DomainMin[ch], c.DomainMax[ch]))
                  => Outside(PostSamples[i][ch], I(0), I(1))

C15_Witness ==
    /\ call.op = "Clamp"
    /\ c.DomainMin = Smp(I(0), I(-1), Half) /\ c.DomainMax = Smp(I(2), I(1), I(1))
    /\ Len(PreSamples) = 2
    /\ PreSamples[1] = Smp(F(-1, 2), F(3, 2), I(1))
    /\ PostSamples[1] = Smp(F(-1, 4), F(5, 4), I(1))
    /\ PreSamples[2] = Smp(Half, Half, Half)

\* C29: every call of Scale, Clamp, Sum, Blend and Rescale, failing or not,
\* leaves the Title, Meta, LUT3Dsize, DomainMin and DomainMax of the Cube
\* and the number of its samples as they were, and so does every sequence
\* of calls; the other Cube is left alone unless it shares the samples;
\* each call returns the receiver.
C29_OnlySamplesChange ==
    [][/\ c'.Title = c.Title /\ c'.Meta = c.Meta /\ c'.LUT3Dsize = c.LUT3Dsize
       /\ c'.DomainMin = c.DomainMin /\ c'.DomainMax = c.DomainMax
       /\ c'.Samples = c.Samples
       /\ Len(arrays'[c.Samples]) = Len(arrays[c.Samples])
       /\ DOMAIN arrays' = DOMAIN arrays
       /\ c2' = c2
       /\ c2.Samples # c.Samples => arrays'[c2.Samples] = arrays[c2.Samples]
       /\ result' = "c"]_vars

C29_Witness ==
    /\ nops = 2 /\ call.op = "Blend" /\ err = "nil"
    /\ PostSamples # PreSamples /\ Len(PostSamples) = 2
    /\ c = pre.c
    /\ c.Title = <<LETTER>> /\ c.DomainMin = Smp(I(0), I(-1), Half)

---------------------------------------------------------------------------
(* interpolate as a state machine: a Cube of level 0..MaxLevel, a build     *)
(* (what int makes of NaN) and an input colour, then the call.              *)

MaxLevel == 3

\* sample i (0-based) of the Cubes drawn for the checks
SampleAt(seed, i) ==
    Smp(F((i * i + seed) % 5, 2), F((3 * i + seed) % 7, 4), F(i + 2 * seed, 3))

Seeds == {0, 1}

\* the inputs drawn for one channel: the lattice points and the points half
\* way between them, a point a quarter into the first cell, one input below
\* the lattice and one above
Inputs(dmin, dmax, n) ==
    LET m == IF n < 2 THEN 1 ELSE n - 1
        range == FSub(dmax, dmin)
    IN  { FAdd(dmin, FMul(range, F(k, 2 * m))) : k \in 0..(2 * m) }
        \cup { FAdd(dmin, FMul(range, F(1, 4 * m))) }
        \cup { FSub(min(dmin, dmax), I(1)), FAdd(max(dmin, dmax), I(1)) }

InitInterp ==
    /\ \E n \in 0..MaxLevel, seed \in Seeds, short \in BOOLEAN, dom \in Domains :
          LET len == IF short /\ n > 0 THEN n * n * n - 1 ELSE n * n * n
          IN  /\ arrays = (1 :> [i \in 1..len |-> SampleAt(seed, i - 1)]) @@ (2 :> <<>>)
              /\ c = MkCube(<<LETTER>>, <<HASH, LETTER>>, n, dom.min, dom.max, 1)
              /\ \E r \in Inputs(dom.min.R, dom.max.R, n),
                    g \in Inputs(dom.min.G, dom.max.G, n),
                    b \in Inputs(dom.min.B, dom.max.B, n) :
                    call = [op |-> "interpolate", args |-> <<r, g, b>>]
    /\ c2 = c
    /\ pre = Snapshot
    /\ nanInt \in {Int64(0), MinInt64}
    /\ err = "nil"
    /\ nops = 0
    /\ result = Panic
    /\ text = <<>>
    /\ NoApply

\* c.interpolate(r, g, b)
Interpolate ==
    /\ call.op = "interpolate"
    /\ nops = 0
    /\ result' = interpolate(arrays, c, call.args[1], call.args[2], call.args[3], nanInt)
    /\ nops' = 1
    /\ UNCHANGED <<arrays, c, c2, call, err, pre, nanInt, text, applyVars>>

NextInterp == Interpolate

SpecInterp == InitInterp /\ [][NextInterp]_vars

---------------------------------------------------------------------------
(* Claims about interpolate *)

Interpolated == call.op = "interpolate" /\ nops = 1

Level == c.LUT3Dsize

WellFormed ==
    /\ Level >= 2
    /\ NumSamples(arrays, c) = Level * Level * Level
    /\ \A ch \in Channels : FGt(c.DomainMax[ch], c.DomainMin[ch])

\* the input whose cube coordinate on channel ch is k/den
InputAt(ch, k, den) ==
    FAdd(c.DomainMin[ch], FMul(FSub(c.DomainMax[ch], c.DomainMin[ch]), F(k, den)))

\* the sample stored for the lattice point (r, g, b)
Stored(r, g, b) == arrays[c.Samples][r + g * Level + b * Level * Level + 1]

\* C7: on a Cube with Level^3 samples and DomainMax > DomainMin, interpolate
\* at the input of the lattice point (r, g, b), which is (r/(N-1), g/(N-1),
\* b/(N-1)) on the domain [0,1], returns the sample stored for (r, g, b).
C7_LatticePointsExact ==
    (Interpolated /\ WellFormed)
        => \A r, g, b \in 0..(Level - 1) :
              call.args = <<InputAt("R", r, Level - 1), InputAt("G", g, Level - 1),
                            InputAt("B", b, Level - 1)>>
                  => result = Returned(Stored(r, g, b))

C7_Witness ==
    /\ Interpolated /\ WellFormed
    /\ Level = 3
    /\ c.DomainMin.G = I(-1)
    /\ call.args = <<InputAt("R", 1, 2), InputAt("G", 2, 2), InputAt("B", 0, 2)>>
    /\ result = Returned(Stored(1, 2, 0))
    /\ Stored(1, 2, 0) # Stored(2, 1, 0)

\* the arithmetic mean of the 8 samples at the corners of the cell whose
\* lowest corner is (r, g, b)
CornerSum(r, g, b, ch) ==
    FAdd(FAdd(FAdd(Stored(r, g, b)[ch], Stored(r + 1, g, b)[ch]),
              FAdd(Stored(r, g + 1, b)[ch], Stored(r + 1, g + 1, b)[ch])),
         FAdd(FAdd(Stored(r, g, b + 1)[ch], Stored(r + 1, g, b + 1)[ch]),
              FAdd(Stored(r, g + 1, b + 1)[ch], Stored(r + 1, g + 1, b + 1)[ch])))

CornerMean(r, g, b) ==
    Smp(FDiv(CornerSum(r, g, b, "R"), I(8)),
        FDiv(CornerSum(r, g, b, "G"), I(8)),
        FDiv(CornerSum(r, g, b, "B"), I(8)))

\* C8: interpolate at the centre of a lattice cell returns the arithmetic
\* mean of the 8 samples at the corners of that cell.
C8_CellCentreIsMean ==
    (Interpolated /\ WellFormed)
        => \A r, g, b \in 0..(Level - 2) :
              call.args = <<InputAt("R", 2 * r + 1, 2 * (Level - 1)),
                            InputAt("G", 2 * g + 1, 2 * (Level - 1)),
                            InputAt("B", 2 * b + 1, 2 * (Level - 1))>>
                  => result = Returned(CornerMean(r, g, b))

C8_Witness ==
    /\ Interpolated /\ WellFormed
    /\ Level = 2
    /\ c.DomainMin = ZeroSample /\ c.DomainMax = Smp(I(1), I(1), I(1))
    /\ call.args = <<Half, Half, Half>>
    /\ result = Returned(CornerMean(0, 0, 0))
    /\ \A i \in 1..8 : result.s # arrays[c.Samples][i]

\* the input x of channel ch brought into [DomainMin, DomainMax]
ClampedInput(ch, x) ==
    IF FLt(x, c.DomainMin[ch]) THEN c.DomainMin[ch]
    ELSE IF FGt(x, c.DomainMax[ch]) THEN c.DomainMax[ch]
    ELSE x

\* the result of interpolate with the input of channel number i clamped
ResultClamped(i, ch) ==
    interpolate(arrays, c,
                IF i = 1 THEN ClampedInput(ch, call.args[1]) ELSE call.args[1],
                IF i = 2 THEN ClampedInput(ch, call.args[2]) ELSE call.args[2],
                IF i = 3 THEN ClampedInput(ch, call.args[3]) ELSE call.args[3],
                nanInt)

ChannelOf(i) == IF i = 1 THEN "R" ELSE IF i = 2 THEN "G" ELSE "B"

\* C9 as stated: for every Cube and every channel, an input below DomainMin
\* gives the result of the input DomainMin, and an input above DomainMax the
\* result of the input DomainMax.
C9_ClampsAnyDomain ==
    Interpolated => \A i \in 1..3 : result = ResultClamped(i, ChannelOf(i))

\* C9 amended: on a channel with DomainMax > DomainMin, an input below
\* DomainMin gives the result of the input DomainMin, and an input above
\* DomainMax the result of the input DomainMax, whatever the other channels.
C9_ClampsValidDomain ==
    Interpolated
        => \A i \in 1..3 :
              FGt(c.DomainMax[ChannelOf(i)], c.DomainMin[ChannelOf(i)])
                  => result = ResultClamped(i, ChannelOf(i))

C9_Witness ==
    /\ Interpolated /\ WellFormed
    /\ Level = 3
    /\ FLt(call.args[1], c.DomainMin.R)
    /\ FGt(call.args[2], c.DomainMax.G)
    /\ call.args[3] = InputAt("B", 1, 4)
    /\ ~result.panic
    /\ result = interpolate(arrays, c, c.DomainMin.R, c.DomainMax.G, call.args[3], nanInt)

---------------------------------------------------------------------------
(* The grid codec as a state machine: a Cube c and a text; WriteTo writes c *)
(* to the text, Load reads the text into a new Cube (result, with a new     *)
(* backing array).                                                          *)

MaxLines == 3

Titles ==
    { <<>>, <<LETTER>>, <<SP, LETTER, SP, QUOTE, LETTER>>, <<LETTER, NL, LETTER>> }

Metas ==
    { <<>>, <<HASH, SP, LETTER>>, <<HASH, LETTER, NL, HASH>>,
      <<LETTER>>, <<HASH, LETTER, SP>>, <<HASH, NL, NL, HASH>> }

CodecPalette == Palette \cup { Smp(F(1, 3), I(0), F(1, 2000000)) }

CodecSampleSeqs == UNION { [1..n -> CodecPalette] : n \in 0..MaxSamples }

CodecDomains ==
    Domains \cup { [min |-> Smp(F(1, 3), I(0), I(0)), max |-> Smp(I(1), I(1), I(1))] }

Dec(k, d) == Numeral("dec", (k * FScale) \div d)

\* the lines the texts given to Load are made of
InputLines ==
    { <<Sym("TITLE"), SP, QUOTE, LETTER, SP, LETTER, QUOTE>>,
      <<Sym("LUT_3D_SIZE"), SP, Numeral("int", 1)>>,
      <<Sym("LUT_3D_SIZE"), SP, SP, Numeral("int", 2), SP>>,
      <<Sym("DOMAIN_MIN"), SP, Dec(-1, 1), SP, Dec(0, 1), SP, Numeral("int", 0)>>,
      <<Sym("DOMAIN_MAX"), SP, Dec(1, 1), SP, Dec(1, 1), SP, Dec(2, 1)>>,
      <<HASH, SP, LETTER>>,
      <<Numeral("int", 0), SP, Dec(1, 2), SP, Dec(1, 1)>>,
      <<SP, Dec(1, 4), SP, SP, Dec(-1, 2), SP, Numeral("int", 2), SP>>,
      <<>>,
      <<LETTER, SP, LETTER>>,
      <<LETTER, SP, Numeral("int", 0), SP, Numeral("int", 0)>>,
      <<Sym("LUT_3D_SIZE"), SP, LETTER>> }

\* the lines ls, each ended by a newline
RECURSIVE JoinLines(_)
JoinLines(ls) == IF ls = <<>> THEN <<>> ELSE Head(ls) \o <<NL>> \o JoinLines(Tail(ls))

InputTexts == { JoinLines(ls) : ls \in UNION { [1..n -> InputLines] : n \in 0..MaxLines } }

InitCodec ==
    /\ \E title \in Titles, meta \in Metas, n \in {0, 2}, dom \in CodecDomains,
          ss \in CodecSampleSeqs, t \in InputTexts :
          /\ t = <<>> \/ (title = <<>> /\ meta = <<>> /\ n = 0 /\ dom = UnitDomain /\ ss = <<>>)
          /\ arrays = (1 :> ss) @@ (2 :> <<>>)
          /\ c = MkCube(title, meta, n, dom.min, dom.max, 1)
          /\ text = t
    /\ c2 = c
    /\ pre = Snapshot
    /\ call = NoCall
    /\ err = "nil"
    /\ nops = 0
    /\ nanInt = Int64(0)
    /\ result = c
    /\ NoApply

\* c.WriteTo(w) for an empty writer w
WriteToCall ==
    /\ call.op = "none"
    /\ text' = WriteTo(arrays, c)
    /\ call' = [op |-> "WriteTo", args |-> <<>>]
    /\ err' = "nil"
    /\ nops' = nops + 1
    /\ UNCHANGED <<arrays, c, c2, pre, nanInt, result, applyVars>>

\* Load(r) for a reader r of the text
LoadCall ==
    /\ call.op \in {"none", "WriteTo"}
    /\ LET st == Load(text)
       IN  /\ arrays' = [arrays EXCEPT ![2] = st.samples]
           /\ result' = MkCube(st.Title, st.Meta, st.LUT3Dsize, st.DomainMin, st.DomainMax, 2)
           /\ err' = st.err
    /\ call' = [op |-> "Load", args |-> <<>>]
    /\ nops' = nops + 1
    /\ UNCHANGED <<c, c2, pre, nanInt, text, applyVars>>

NextCodec == WriteToCall \/ LoadCall

SpecCodec == InitCodec /\ [][NextCodec]_vars

---------------------------------------------------------------------------
(* Claims about the grid codec *)

Loaded == call.op = "Load"

\* the text read was written by WriteTo from c
RoundTrip == call.op = "Load" /\ nops = 2

\* C1: every Cube that Load returns without error has LUT3Dsize^3 samples:
\* a text whose number of sample lines differs from LUT_3D_SIZE^3, or that
\* has no LUT_3D_SIZE line, is rejected with an error.
C1_LoadChecksSampleCount ==
    (Loaded /\ err = "nil")
        => NumSamples(arrays, result) = result.LUT3Dsize * result.LUT3Dsize * result.LUT3Dsize

\* a float64 that %f prints without loss
Representable(a) == IsFinite(a) /\ (a.n * FScale) % a.d = 0

RepresentableSample(s) == \A ch \in Channels : Representable(s[ch])

RepresentableCube ==
    /\ RepresentableSample(c.DomainMin) /\ RepresentableSample(c.DomainMax)
    /\ \A i \in 1..NumSamples(arrays, c) : RepresentableSample(arrays[c.Samples][i])

SameCube ==
    /\ err = "nil"
    /\ result.Title = c.Title /\ result.Meta = c.Meta
    /\ result.LUT3Dsize = c.LUT3Dsize
    /\ result.DomainMin = c.DomainMin /\ result.DomainMax = c.DomainMax
    /\ arrays[result.Samples] = arrays[c.Samples]

\* C10 as stated: Load(WriteTo(L)) returns, without error, a Cube with the
\* Title, Meta, LUT3Dsize, DomainMin, DomainMax and samples of L, for any L
\* whose sample and domain values %f prints without loss.
C10_RoundTripAnyCube == (RoundTrip /\ RepresentableCube) => SameCube

\* the title has no line break
TitleOnOneLine == \A i \in 1..Len(c.Title) : c.Title[i] # NL

\* Meta is empty, or lines that each start with # and end without a space
MetaOfHashLines ==
    LET m == c.Meta
    IN  m # <<>> =>
           /\ m[1] = HASH
           /\ m[Len(m)] \notin {SP, NL}
           /\ \A i \in 1..(Len(m) - 1) : m[i] = NL => (m[i + 1] = HASH /\ m[i - 1] # SP)

\* C10 amended: the round trip holds for any such L whose Title has no line
\* break and whose Meta is empty or made of lines that start with # and end
\* without white space.
C10_RoundTrip ==
    (RoundTrip /\ RepresentableCube /\ TitleOnOneLine /\ MetaOfHashLines) => SameCube

C10_Witness ==
    /\ RoundTrip /\ RepresentableCube /\ SameCube
    /\ c.Title = <<SP, LETTER, SP, QUOTE, LETTER>>
    /\ c.Meta = <<HASH, LETTER, NL, HASH>>
    /\ c.LUT3Dsize = 2
    /\ c.DomainMin.G = I(-1)
    /\ NumSamples(arrays, c) = 2
    /\ arrays[c.Samples][1] # arrays[c.Samples][2]

One == Smp(I(1), I(1), I(1))

\* the text read has no DOMAIN_MIN and no DOMAIN_MAX
NoDomainLine ==
    \A i \in 1..Len(text) : text[i] \notin {Sym("DOMAIN_MIN"), Sym("DOMAIN_MAX")}

\* C11: a text without DOMAIN_MIN / DOMAIN_MAX lines that Load accepts gives
\* a Cube with DomainMin = (0,0,0) and DomainMax = (1,1,1).
C11_DefaultDomain ==
    (Loaded /\ err = "nil" /\ NoDomainLine)
        => (result.DomainMin = ZeroSample /\ result.DomainMax = One)

\* what the switch of Load takes a line of the text for
LineKind(raw) ==
    LET line == TrimSpace(raw)
        fields == Fields(line)
    IN  IF line = <<>> THEN "blank"
        ELSE IF fields[1] = <<Sym("TITLE")>> THEN "TITLE"
        ELSE IF fields[1] = <<Sym("LUT_3D_SIZE")>> THEN "LUT_3D_SIZE"
        ELSE IF fields[1] = <<Sym("DOMAIN_MIN")>> THEN "DOMAIN_MIN"
        ELSE IF fields[1] = <<Sym("DOMAIN_MAX")>> THEN "DOMAIN_MAX"
        ELSE IF Head(line) = HASH THEN "meta"
        ELSE IF Len(fields) = 3 THEN "sample"
        ELSE "other"

\* the lines of the text read, and those of them that are sample rows
TextLines == ScanLines(text)
SampleRows == { k \in 1..Len(TextLines) : LineKind(TextLines[k]) = "sample" }

\* Load accepts the lines before line k of the text
ReachesLine(k) == Load(JoinLines(SubSeq(TextLines, 1, k - 1))).err = "nil"

EmptyCube ==
    /\ result.Title = <<>> /\ result.Meta = <<>> /\ result.LUT3Dsize = 0
    /\ result.DomainMin = ZeroSample /\ result.DomainMax = ZeroSample
    /\ arrays[result.Samples] = <<>>

C12_WitnessRows ==
    /\ Loaded /\ err = "nil"
    /\ Len(TextLines) = 3
    /\ LineKind(TextLines[1]) = "sample" /\ LineKind(TextLines[2]) = "meta"
    /\ LineKind(TextLines[3]) = "sample"
    /\ Len(arrays[result.Samples]) = 2
    /\ arrays[result.Samples][1] # arrays[result.Samples][2]
    /\ arrays[result.Samples][2] = ScanSample(TextLines[3], 0).s

\* WriteTo has written c to the text
Written == call.op = "WriteTo"

TitleLine ==
    IF c.Title # <<>> THEN <<Sym("TITLE"), SP, QUOTE>> \o c.Title \o <<QUOTE, NL>> ELSE <<>>

MetaBlock == IF c.Meta # <<>> THEN c.Meta \o <<NL>> ELSE <<>>

SizeLine == <<Sym("LUT_3D_SIZE"), SP, Numeral("int", c.LUT3Dsize), NL>>

DomainLines ==
    <<Sym("DOMAIN_MIN"), SP>> \o SampleString(c.DomainMin) \o <<NL>>
    \o <<Sym("DOMAIN_MAX"), SP>> \o SampleString(c.DomainMax) \o <<NL>>

\* the text t is one line per sample of c, in index order
IsSampleLines(t) ==
    /\ Len(t) = 6 * NumSamples(arrays, c)
    /\ \A i \in 1..NumSamples(arrays, c) :
          SubSeq(t, 6 * i - 5, 6 * i) = SampleString(arrays[c.Samples][i]) \o <<NL>>

\* the text starts with head and goes on with the sample lines
HeadThenSamples(head) ==
    /\ Len(text) >= Len(head)
    /\ SubSeq(text, 1, Len(head)) = head
    /\ IsSampleLines(SubSeq(text, Len(head) + 1, Len(text)))

\* C13 as stated: WriteTo writes the title line if Title is not empty, the
\* metadata block if Meta is not empty, the LUT_3D_SIZE line, directly after
\* it the DOMAIN_MIN and DOMAIN_MAX lines, one blank line, then one line per
\* sample in index order.
C13_WriteToNoBlankAfterSize ==
    Written => HeadThenSamples(TitleLine \o MetaBlock \o SizeLine \o DomainLines \o <<NL>>)

\* C13 amended: as above, with one blank line between the LUT_3D_SIZE line
\* and the DOMAIN_MIN line.
C13_WriteToOrder ==
    Written =>
        HeadThenSamples(TitleLine \o MetaBlock \o SizeLine \o <<NL>> \o DomainLines \o <<NL>>)

C13_Witness ==
    /\ Written
    /\ c.Title # <<>> /\ c.Meta # <<>>
    /\ NumSamples(arrays, c) = 2
    /\ arrays[c.Samples][1] # arrays[c.Samples][2]
    /\ HeadThenSamples(TitleLine \o MetaBlock \o SizeLine \o <<NL>> \o DomainLines \o <<NL>>)

---------------------------------------------------------------------------
(* Apply / ApplyScaled as a state machine: a LUT (the Cube c or the HALD    *)
(* hald), a source image, and one call.  ApplyScaled starts a goroutine per *)
(* row; each goroutine runs processRowScaled, one pixel per step; a panic   *)
(* in a goroutine ends the program.  What an iteration of processRowScaled  *)
(* computes for a point depends on the LUT, the source image and the        *)
(* intensity only, which no step of the pass writes: it is computed once,   *)
(* when ApplyScaled is entered, and kept in colours.                        *)

MaxWidth == 2
MaxHeight == 2

\* the colours of the source images, as RGBA() gives them: opaque red, two
\* opaque colours off the lattice points and a half-transparent colour
SourceColours ==
    << [r |-> 65535, g |-> 0, b |-> 0, a |-> 65535],
       [r |-> 13107, g |-> 21845, b |-> 43690, a |-> 65535],
       [r |-> 13107, g |-> 0, b |-> 21845, a |-> 32768],
       [r |-> 52428, g |-> 65535, b |-> 4369, a |-> 65535] >>

\* the source images: every size up to MaxWidth x MaxHeight, height 0
\* included, and a one-column image whose bounds do not start at (0, 0)
Images ==
    { [Rect |-> rc,
       Pix |-> [p \in Points(rc) |-> SourceColours[((p[1] + 2 * p[2]) % 4) + 1]]] :
      rc \in { Rectangle(0, 0, w, ht) : w \in 1..MaxWidth, ht \in 0..MaxHeight }
             \cup { Rectangle(1, 1, 2, MaxHeight + 1) } }

\* the HALDs: the identity of level 2 and its negative
Halds ==
    { Identity(2),
      [Image |-> [Rect |-> Identity(2).Image.Rect,
                  Pix |-> [p \in Points(Identity(2).Image.Rect) |->
                             [r |-> 65535 - Identity(2).Image.Pix[p].r,
                              g |-> 65535 - Identity(2).Image.Pix[p].g,
                              b |-> 65535 - Identity(2).Image.Pix[p].b,
                              a |-> 65535]]],
       level |-> 2] }

Intensities == { I(-1), I(0), Half, I(1), I(2) }

\* what is not a LUT or an image in the initial state
InitCall ==
    /\ c2 = c
    /\ pre = Snapshot
    /\ call = NoCall
    /\ err = "nil"
    /\ nops = 0
    /\ result = NoImage
    /\ text = <<>>
    /\ out = NoImage
    /\ colours = <<>>
    /\ files = {}
    /\ pc = "idle"
    /\ nextY = 0
    /\ wg = 0
    /\ workers = <<>>
    /\ writers = <<>>

\* a Cube of level 2 with one of the domains a grid file can give it, or a
\* HALD of level 2
InitApply ==
    /\ \/ /\ lut = "cube"
          /\ \E dom \in Domains :
                c = MkCube(<<LETTER>>, <<>>, 2, dom.min, dom.max, 1)
          /\ arrays = (1 :> [i \in 1..8 |-> SampleAt(0, i - 1)]) @@ (2 :> <<>>)
          /\ hald = [Image |-> NoImage, level |-> 0]
          /\ nanInt \in {Int64(0), MinInt64}
       \/ /\ lut = "hald"
          /\ hald \in Halds
          /\ c = MkCube(<<>>, <<>>, 0, ZeroSample, ZeroSample, 1)
          /\ arrays = (1 :> <<>>) @@ (2 :> <<>>)
          /\ nanInt = Int64(0)
    /\ img \in Images
    /\ InitCall

\* the body of the loop of processRowScaled for the source colour px
processPixel(px, t) ==
    IF lut = "cube" THEN cubePixel(arrays, c, px, t, nanInt)
    ELSE [panic |-> FALSE, col |-> haldPixel(hald, px, t, nanInt)]

\* ApplyScaled up to its loop: bounds, out, the clamp of the intensity and
\* the loop variable y
Enter(rec) ==
    /\ pc = "idle"
    /\ call' = rec
    /\ out' = NewRGBA(img.Rect)
    /\ colours' = [p \in Points(img.Rect) |->
                      processPixel(At(img, p[1], p[2]), clampIntensity(rec.args[1]))]
    /\ writers' = [p \in Points(img.Rect) |-> <<>>]
    /\ files' = files
    /\ nextY' = img.Rect.Min.Y
    /\ pc' = "loop"
    /\ nops' = nops + 1
    /\ UNCHANGED <<arrays, c, c2, err, pre, nanInt, result, text, lut, hald, img, wg, workers>>

\* lut.ApplyScaled(img, t)
ApplyScaled == \E t \in Intensities : Enter([op |-> "ApplyScaled", args |-> <<t>>])

\* lut.Apply(img), which is ApplyScaled(img, 1.0)
Apply == Enter([op |-> "Apply", args |-> <<I(1)>>])

\* a goroutine that is given the first row whatever y is
NewWorkerFirstRow(y) == [y |-> img.Rect.Min.Y, x |-> img.Rect.Min.X, done |-> FALSE]

\* the goroutine started for row y, at the start of processRowScaled
NewWorker(y) == [y |-> y, x |-> img.Rect.Min.X, done |-> FALSE]

\* one iteration of for y := ...: wg.Go / wg.Add(1) and go func, then y++
Go ==
    /\ pc = "loop"
    /\ nextY < img.Rect.Max.Y
    /\ workers' = Append(workers, NewWorker(nextY))
    /\ wg' = wg + 1
    /\ nextY' = nextY + 1
    /\ UNCHANGED <<arrays, c, c2, call, err, pre, nops, nanInt, result, text,
                   lut, hald, img, out, colours, files, pc, writers>>

\* a processRowScaled that works in place: it sets the pixel of the source
ProcessPixelInPlace(w) ==
    /\ pc = "loop"
    /\ w \in 1..Len(workers)
    /\ ~workers[w].done
    /\ workers[w].x < img.Rect.Max.X
    /\ LET x == workers[w].x
           y == workers[w].y
           r == colours[<<x, y>>]
       IN  IF r.panic
           THEN pc' = "panic" /\ UNCHANGED <<img, writers, workers>>
           ELSE /\ img' = [img EXCEPT !.Pix[<<x, y>>] =
                              [r |-> 257 * r.col.R, g |-> 257 * r.col.G,
                               b |-> 257 * r.col.B, a |-> 257 * r.col.A]]
                /\ writers' = [writers EXCEPT ![<<x, y>>] = Append(@, w)]
                /\ workers' = [workers EXCEPT ![w].x = x + 1]
                /\ pc' = pc
    /\ UNCHANGED <<arrays, c, c2, call, err, pre, nops, nanInt, result, text,
                   lut, hald, out, colours, files, nextY, wg>>

\* one iteration of the loop of processRowScaled in goroutine w
ProcessPixel(w) ==
    /\ pc = "loop"
    /\ w \in 1..Len(workers)
    /\ ~workers[w].done
    /\ workers[w].x < img.Rect.Max.X
    /\ LET x == workers[w].x
           y == workers[w].y
           r == colours[<<x, y>>]
       IN  IF r.panic
           THEN pc' = "panic" /\ UNCHANGED <<out, writers, workers>>
           ELSE /\ out' = SetRGBA(out, x, y, r.col)
                /\ writers' = [writers EXCEPT ![<<x, y>>] = Append(@, w)]
                /\ workers' = [workers EXCEPT ![w].x = x + 1]
                /\ pc' = pc
    /\ UNCHANGED <<arrays, c, c2, call, err, pre, nops, nanInt, result, text,
                   lut, hald, img, colours, files, nextY, wg>>

\* goroutine w returns from processRowScaled: wg.Done()
Done(w) ==
    /\ pc = "loop"
    /\ w \in 1..Len(workers)
    /\ ~workers[w].done
    /\ workers[w].x >= img.Rect.Max.X
    /\ workers' = [workers EXCEPT ![w].done = TRUE]
    /\ wg' = wg - 1
    /\ UNCHANGED <<arrays, c, c2, call, err, pre, nops, nanInt, result, text,
                   lut, hald, img, out, colours, files, pc, nextY, writers>>

\* the loop is over, wg.Wait() returns when the counter is 0, return out
Wait ==
    /\ pc = "loop"
    /\ nextY >= img.Rect.Max.Y
    /\ wg = 0
    /\ pc' = "returned"
    /\ result' = out
    /\ UNCHANGED <<arrays, c, c2, call, err, pre, nops, nanInt, text,
                   lut, hald, img, out, colours, files, nextY, wg, workers, writers>>

Worker(w) == ProcessPixel(w) \/ Done(w)

NextApply == ApplyScaled \/ Apply \/ Go \/ (\E w \in 1..MaxHeight : Worker(w)) \/ Wait

SpecApply == InitApply /\ [][NextApply]_vars

\* the scheduler of Go lets every goroutine that can run take its step
SpecApplyFair ==
    SpecApply /\ WF_vars(Go \/ Wait) /\ \A w \in 1..MaxHeight : WF_vars(Worker(w))

---------------------------------------------------------------------------
(* Apply of an identity HALD to one opaque 8-bit pixel: every 8-bit value   *)
(* occurs in every channel, and pure red is one of the pixels.              *)

MaxHaldLevel == 3

\* what RGBA() returns for the opaque 8-bit pixel (r8, g8, b8)
Opaque8(r8, g8, b8) == [r |-> 257 * r8, g |-> 257 * g8, b |-> 257 * b8, a |-> 65535]

Pixels8 ==
    { Opaque8(v, 255 - v, (v + 128) % 256) : v \in 0..255 } \cup { Opaque8(255, 0, 0) }

InitIdentity ==
    /\ lut = "hald"
    /\ \E N \in 2..MaxHaldLevel : hald = Identity(N)
    /\ \E px \in Pixels8 :
          img = [Rect |-> Rectangle(0, 0, 1, 1),
                 Pix |-> [p \in Points(Rectangle(0, 0, 1, 1)) |-> px]]
    /\ c = MkCube(<<>>, <<>>, 0, ZeroSample, ZeroSample, 1)
    /\ arrays = (1 :> <<>>) @@ (2 :> <<>>)
    /\ nanInt = Int64(0)
    /\ InitCall

NextIdentity == Apply \/ Go \/ (\E w \in 1..MaxHeight : Worker(w)) \/ Wait

SpecIdentity == InitIdentity /\ [][NextIdentity]_vars

---------------------------------------------------------------------------
(* Claims about Apply / ApplyScaled *)

ApplyReturned == pc = "returned"

\* the intensity argument brought into [0,1]
Clamped01(t) == IF FLt(t, I(0)) THEN I(0) ELSE IF FGt(t, I(1)) THEN I(1) ELSE t

\* what the LUT gives for the source colour px, on the scale [0,1] of the
\* image: for a Cube, interpolate at the colour mapped into the domain,
\* mapped back from the domain
Interpolated01(px) ==
    LET norm == colorToFloat64(px)
    IN  IF lut = "hald" THEN HALDInterpolate(hald, norm.R, norm.G, norm.B)
        ELSE LET range == [ch \in Channels |-> FSub(c.DomainMax[ch], c.DomainMin[ch])]
                 in == [ch \in Channels |-> FAdd(c.DomainMin[ch], FMul(norm[ch], range[ch]))]
                 res == interpolate(arrays, c, in.R, in.G, in.B, nanInt)
             IN  [ch \in Channels |-> FDiv(FSub(res.s[ch], c.DomainMin[ch]), range[ch])]

\* original*(1-t) + interpolated*t
BlendOf(px, ch, t) ==
    FAdd(FMul(colorToFloat64(px)[ch], FSub(I(1), t)), FMul(Interpolated01(px)[ch], t))

\* q is the 8-bit quantization of v saturated to [0,1]
IsQuantized(q, v) ==
    /\ IsFinite(v)
    /\ q = (LET sat == Clamped01(v) IN (255 * sat.n) \div sat.d)

\* C16: the image ApplyScaled returns has the bounds of img; in every pixel
\* each of R, G, B is the 8-bit quantization of original*(1-t) +
\* interpolated*t saturated to [0,1], and A is the 16-bit alpha of the
\* source pixel divided by 257.
C16_OutputIsBlend ==
    ApplyReturned =>
        /\ result.Rect = img.Rect
        /\ \A p \in Points(img.Rect) :
              /\ IsQuantized(result.Pix[p].R, BlendOf(img.Pix[p], "R", Clamped01(call.args[1])))
              /\ IsQuantized(result.Pix[p].G, BlendOf(img.Pix[p], "G", Clamped01(call.args[1])))
              /\ IsQuantized(result.Pix[p].B, BlendOf(img.Pix[p], "B", Clamped01(call.args[1])))
              /\ result.Pix[p].A = img.Pix[p].a \div 257

\* the colour processRowScaled sets for point p when its intensity is t
PixelFor(p, t) == processPixel(img.Pix[p], t).col

\* C17: with an intensity above 1 ApplyScaled returns the image of intensity
\* 1, which is also what Apply returns; with an intensity below 0 it returns
\* the image of intensity 0.
C17_IntensityClamped ==
    ApplyReturned =>
        /\ (call.op = "Apply" \/ FGt(call.args[1], I(1)))
              => \A p \in Points(img.Rect) : result.Pix[p] = PixelFor(p, I(1))
        /\ FLt(call.args[1], I(0))
              => \A p \in Points(img.Rect) : result.Pix[p] = PixelFor(p, I(0))

C17_Witness ==
    /\ ApplyReturned /\ call.op = "ApplyScaled" /\ call.args[1] = I(2)
    /\ lut = "cube" /\ c.DomainMin = Smp(I(0), I(-1), Half)
    /\ img.Rect = Rectangle(0, 0, 2, 2)
    /\ \A p \in Points(img.Rect) : result.Pix[p] = PixelFor(p, I(1))
    /\ \E p \in Points(img.Rect) : result.Pix[p] # PixelFor(p, I(2))
    /\ \E p \in Points(img.Rect) : result.Pix[p] # PixelFor(p, I(0))

\* the goroutines that wrote point p
WritersOf(p) == { writers[p][k] : k \in 1..Len(writers[p]) }

\* C19: one goroutine is started for each row the loop has passed and none
\* for any other row; a goroutine writes pixels of its own row only, so no
\* pixel is written by two goroutines.
C19_OneWorkerPerRow ==
    pc # "idle" =>
        /\ \A y \in img.Rect.Min.Y..(nextY - 1) :
              Cardinality({ w \in 1..Len(workers) : workers[w].y = y }) = 1
        /\ \A w \in 1..Len(workers) : workers[w].y \in img.Rect.Min.Y..(nextY - 1)
        /\ (pc = "returned" => nextY = img.Rect.Max.Y)
        /\ \A p \in Points(img.Rect) :
              /\ \A w \in WritersOf(p) : workers[w].y = p[2]
              /\ Cardinality(WritersOf(p)) <= 1

C19_Witness ==
    /\ pc = "loop"
    /\ img.Rect = Rectangle(0, 0, 2, 2)
    /\ Len(workers) = 2
    /\ writers[<<0, 0>>] = <<1>> /\ writers[<<1, 0>>] = <<>>
    /\ writers[<<0, 1>>] = <<2>> /\ writers[<<1, 1>>] = <<2>>

\* every goroutine started has finished and every pixel has been written once
AllWritten ==
    /\ Len(workers) = img.Rect.Max.Y - img.Rect.Min.Y
    /\ \A w \in 1..Len(workers) : workers[w].done
    /\ \A p \in Points(img.Rect) : Len(writers[p]) = 1

\* C20: under fair scheduling an ApplyScaled that has been called returns;
\* when it has returned every goroutine has finished and every pixel of the
\* output has been written exactly once (no goroutine for an image of
\* height 0).
C20_ReturnsWhenAllWritten ==
    /\ (pc = "loop") ~> ApplyReturned
    /\ [](ApplyReturned => AllWritten)

\* the LUT and the source image are what they were before the step
LutAndSourceKept ==
    /\ arrays' = arrays /\ c' = c /\ hald' = hald /\ lut' = lut
    /\ img' = img

\* C21: no step of Apply / ApplyScaled changes the LUT (samples, level,
\* domain) or the source image; the output is allocated anew, all zero, when
\* ApplyScaled is entered, and while the goroutines run a step changes the
\* data of the output image only.
C21_OnlyOutputWritten ==
    [][/\ LutAndSourceKept
       /\ (pc = "idle" => out' = NewRGBA(img.Rect))
       /\ (pc = "loop" => UNCHANGED <<c2, call, err, pre, nanInt, text, colours, files>>)]_vars

C21_Witness ==
    /\ pc = "loop" /\ lut = "cube"
    /\ img.Rect = Rectangle(0, 0, 2, 2)
    /\ Len(workers) = 2 /\ workers[1].x = 1 /\ workers[2].x = 2
    /\ out.Pix[<<0, 1>>] # NewRGBA(img.Rect).Pix[<<0, 1>>]
    /\ out.Pix[<<1, 0>>] = NewRGBA(img.Rect).Pix[<<1, 0>>]

---------------------------------------------------------------------------
(* Claims about the identity HALD *)

\* the distance of two 8-bit values
Dist(a, b) == IF a < b THEN b - a ELSE a - b

\* C18: Apply of Identity(N), N >= 2, to an opaque 8-bit pixel gives a pixel
\* whose R, G and B differ from the input by at most 1, and Identity(2)
\* gives (255, 0, 0) for the pixel (255, 0, 0).
C18_IdentityWithinOne ==
    (ApplyReturned /\ call.op = "Apply" /\ lut = "hald" /\ hald.level >= 2)
        => \A p \in Points(img.Rect) :
              /\ Dist(result.Pix[p].R, img.Pix[p].r \div 257) <= 1
              /\ Dist(result.Pix[p].G, img.Pix[p].g \div 257) <= 1
              /\ Dist(result.Pix[p].B, img.Pix[p].b \div 257) <= 1
              /\ (hald.level = 2 /\ img.Pix[p] = Opaque8(255, 0, 0))
                    => (result.Pix[p].R = 255 /\ result.Pix[p].G = 0
                        /\ result.Pix[p].B = 0)

C18_Witness ==
    /\ ApplyReturned /\ call.op = "Apply" /\ lut = "hald"
    /\ hald.level = 3
    /\ img.Pix[<<0, 0>>].r = 257 * 100
    /\ result.Pix[<<0, 0>>].R = 99
    /\ result.Pix[<<0, 0>>].G = 155 - 1

---------------------------------------------------------------------------
(* newHALD: the validation of the dimensions of an image-LUT, in the cubic  *)
(* layout (part_000:26-44) and in the tiled layout (part_000:322-346).      *)

MaxSide == 28

\* a nil image.Image
NilImage == [nil |-> TRUE]

\* HALD{}
ZeroHALD == [Image |-> NilImage, level |-> 0]

\* func (r Rectangle) Dx() int, Dy() int
Dx(r) == r.Max.X - r.Min.X
Dy(r) == r.Max.Y - r.Min.Y

\* int(math.Round(math.Cbrt(float64(w)))) for w >= 0: the integer nearest to
\* the cube root
RoundCbrt(w) ==
    CHOOSE n \in 0..w : (2 * n - 1) * (2 * n - 1) * (2 * n - 1) <= 8 * w
                        /\ 8 * w < (2 * n + 1) * (2 * n + 1) * (2 * n + 1)

\* int(math.Round(math.Sqrt(float64(h)))) for h >= 0: the integer nearest to
\* the square root
RoundSqrt(h) ==
    CHOOSE n \in 0..h : (n = 0 \/ (2 * n - 1) * (2 * n - 1) <= 4 * h)
                        /\ 4 * h < (2 * n + 1) * (2 * n + 1)

\* a newHALD that looks at the width only
newHALDWidthOnly(m) ==
    IF m = NilImage THEN [hald |-> ZeroHALD, err |-> "ErrNilImage"]
    ELSE LET level == RoundCbrt(Dx(m.Rect))
         IN  IF level * level * level # Dx(m.Rect)
             THEN [hald |-> ZeroHALD, err |-> "ErrInvalidDimensions"]
             ELSE [hald |-> [Image |-> m, level |-> level], err |-> "nil"]

\* func newHALD(img image.Image) (HALD, error), cubic layout
newHALD(m) ==
    IF m = NilImage THEN [hald |-> ZeroHALD, err |-> "ErrNilImage"]
    ELSE IF Dx(m.Rect) # Dy(m.Rect) THEN [hald |-> ZeroHALD, err |-> "ErrInvalidDimensions"]
    ELSE LET level == RoundCbrt(Dx(m.Rect))
         IN  IF level * level * level # Dx(m.Rect)
             THEN [hald |-> ZeroHALD, err |-> "ErrInvalidDimensions"]
             ELSE [hald |-> [Image |-> m, level |-> level], err |-> "nil"]

\* func newHALD(img image.Image) (HALD, error), tiled layout
newHALDTiled(m) ==
    IF m = NilImage THEN [hald |-> ZeroHALD, err |-> "ErrNilImage"]
    ELSE LET level == RoundSqrt(Dy(m.Rect))
         IN  IF level * level # Dy(m.Rect) \/ level * level * level # Dx(m.Rect)
             THEN [hald |-> ZeroHALD, err |-> "ErrInvalidDimensions"]
             ELSE [hald |-> [Image |-> m, level |-> level], err |-> "nil"]

\* the images given to newHALD: nil, and an image of every width and height
\* up to MaxSide
NewHALDImages ==
    {NilImage} \cup { NewRGBA(Rectangle(0, 0, w, ht)) : w \in 0..MaxSide, ht \in 0..MaxSide }

InitNewHALD ==
    /\ lut = "hald"
    /\ hald = ZeroHALD
    /\ img \in NewHALDImages
    /\ c = MkCube(<<>>, <<>>, 0, ZeroSample, ZeroSample, 1)
    /\ arrays = (1 :> <<>>) @@ (2 :> <<>>)
    /\ nanInt = Int64(0)
    /\ InitCall

NewHALDReturns(op, r) ==
    /\ call = NoCall
    /\ call' = [op |-> op, args |-> <<>>]
    /\ hald' = r.hald
    /\ err' = r.err
    /\ nops' = nops + 1
    /\ UNCHANGED <<arrays, c, c2, pre, nanInt, result, text, lut, img, out, colours, files,
                   pc, nextY, wg, workers, writers>>

NewHALDCall == NewHALDReturns("newHALD", newHALD(img))

NewHALDTiledCall == NewHALDReturns("newHALDTiled", newHALDTiled(img))

NextNewHALD == NewHALDCall \/ NewHALDTiledCall

SpecNewHALD == InitNewHALD /\ [][NextNewHALD]_vars

\* the levels N for which the image has the dimensions of the layout
CubicLevels == { N \in 0..MaxSide : Dx(img.Rect) = N * N * N /\ Dy(img.Rect) = N * N * N }
TiledLevels == { N \in 0..MaxSide : Dx(img.Rect) = N * N * N /\ Dy(img.Rect) = N * N }

\* what the claim says newHALD returns when levels are the levels that fit
Validated(levels) ==
    IF img = NilImage THEN err = "ErrNilImage"
    ELSE IF levels # {} THEN err = "nil" /\ hald.Image = img /\ hald.level \in levels
    ELSE err = "ErrInvalidDimensions"

\* C22: newHALD returns ErrNilImage for a nil image; otherwise it accepts the
\* image exactly when width = height = N^3 (cubic layout; width = N^3 and
\* height = N^2 in the tiled layout) for an integer N, with that N as the
\* level, and returns ErrInvalidDimensions for any other dimensions.
C22_NewHALDValidates ==
    /\ call.op = "newHALD" => Validated(CubicLevels)
    /\ call.op = "newHALDTiled" => Validated(TiledLevels)

C22_Witness ==
    /\ call.op = "newHALD"
    /\ img # NilImage /\ Dx(img.Rect) = 27 /\ Dy(img.Rect) = 27
    /\ err = "nil" /\ hald.level = 3

---------------------------------------------------------------------------
(* Interpolate of an image-LUT, in the cubic layout (part_000:77-113) and   *)
(* in the tiled layout (part_000:350-423).                                  *)

\* func (h HALD) getSample(r, g, b int) color.Color, tiled layout
getSampleTiled(hd, r, g, b) ==
    At(hd.Image, b * hd.level + r + hd.Image.Rect.Min.X, g * hd.level + hd.Image.Rect.Min.Y)

\* func (h HALD) interpolate(r, g, b float64) (float64, float64, float64),
\* tiled layout, for finite r, g, b >= 0
interpolateTiled(hd, r, g, b) ==
    CHOOSE rgb \in
        { LET c00 == haldInterpolateSamples(getSampleTiled(hd, ar.i0, ag.i0, ab.i0),
                                           getSampleTiled(hd, ar.i1, ag.i0, ab.i0), ar.frac)
              c01 == haldInterpolateSamples(getSampleTiled(hd, ar.i0, ag.i0, ab.i1),
                                           getSampleTiled(hd, ar.i1, ag.i0, ab.i1), ar.frac)
              c10 == haldInterpolateSamples(getSampleTiled(hd, ar.i0, ag.i1, ab.i0),
                                           getSampleTiled(hd, ar.i1, ag.i1, ab.i0), ar.frac)
              c11 == haldInterpolateSamples(getSampleTiled(hd, ar.i0, ag.i1, ab.i1),
                                           getSampleTiled(hd, ar.i1, ag.i1, ab.i1), ar.frac)
          IN  lerp(lerp(c00, c10, ag.frac), lerp(c01, c11, ag.frac), ab.frac) :
          ar \in {haldAxis(hd.level - 1, r)},
          ag \in {haldAxis(hd.level - 1, g)},
          ab \in {haldAxis(hd.level - 1, b)} } : TRUE

\* an image of the dimensions of the tiled layout of level N
TiledImage(N) ==
    [Rect |-> Rectangle(0, 0, N * N * N, N * N),
     Pix |-> [p \in Points(Rectangle(0, 0, N * N * N, N * N)) |->
                [r |-> 257 * ((85 * p[1]) % 256), g |-> 257 * ((51 * p[2]) % 256),
                 b |-> 257 * ((15 * (p[1] + p[2])) % 256), a |-> 65535]]]

\* channel values in [0,1]
UnitInputs == { F(k, 12) : k \in 0..12 }

InitHaldInterp ==
    /\ \E N \in 2..MaxHaldLevel :
          \/ lut = "hald" /\ hald = Identity(N)
          \/ lut = "tiled" /\ hald = [Image |-> TiledImage(N), level |-> N]
    /\ img = NoImage
    /\ c = MkCube(<<>>, <<>>, 0, ZeroSample, ZeroSample, 1)
    /\ arrays = (1 :> <<>>) @@ (2 :> <<>>)
    /\ nanInt = Int64(0)
    /\ InitCall

\* a call of Interpolate: result holds what it returns and, for each axis,
\* the lattice coordinates and the fraction it has computed
InterpolateReturns(top, rgb, r, g, b) ==
    /\ call = NoCall
    /\ call' = [op |-> "Interpolate", args |-> <<r, g, b>>]
    /\ result' = [rgb |-> rgb,
                  axes |-> <<haldAxis(top, r), haldAxis(top, g), haldAxis(top, b)>>]
    /\ nops' = nops + 1
    /\ UNCHANGED <<arrays, c, c2, err, pre, nanInt, text, lut, hald, img, out, colours, files,
                   pc, nextY, wg, workers, writers>>

HALDInterpolateCall ==
    /\ lut = "hald"
    /\ \E r \in UnitInputs, g \in {I(0), F(1, 3), I(1)}, b \in {I(0), F(1, 4), I(1)} :
          InterpolateReturns(hald.level * hald.level - 1, HALDInterpolate(hald, r, g, b), r, g, b)

InterpolateTiledCall ==
    /\ lut = "tiled"
    /\ \E r \in UnitInputs, g \in {I(0), F(1, 3), I(1)}, b \in {I(0), F(1, 4), I(1)} :
          InterpolateReturns(hald.level - 1, interpolateTiled(hald, r, g, b), r, g, b)

NextHaldInterp == HALDInterpolateCall \/ InterpolateTiledCall

SpecHaldInterp == InitHaldInterp /\ [][NextHaldInterp]_vars

\* Interpolate has used a lattice of M points per axis: on every axis the
\* coordinate is the input times M - 1 and the neighbour is clamped to M - 1
UsesLattice(M) ==
    \A k \in 1..3 :
        LET v == call.args[k]
            x == FMul(v, I(M - 1))
            lo == x.n \div x.d
        IN  /\ result.axes[k].i0 = lo
            /\ result.axes[k].i1 = (IF lo + 1 < M - 1 THEN lo + 1 ELSE M - 1)
            /\ result.axes[k].frac = FSub(x, I(lo))
            /\ result.axes[k].i0 \in 0..(M - 1) /\ result.axes[k].i1 \in 0..(M - 1)

---------------------------------------------------------------------------
(* The convert command (main.go:351-415).  lut is the extension of the LUT  *)
(* path: "cube" for .cube, "hald" for .png, "other" for anything else; c    *)
(* and hald are what cube.LoadFile and hald.LoadFile return when they       *)
(* succeed.  The Samples that convert makes for a .cube output are not kept *)
(* as an array: result holds their number, the loop variables, the number   *)
(* of stores made and the last store.                                       *)

\* const lutSize = 33
lutSize == 33

\* hald.Identity(12)
ConvertLevel == 12

\* filepath.Ext of the output path
Exts == {".cube", ".png", ".jpg", ""}

\* one iteration of the loops with the index computed from the wrong axes
convertSampleSwapped(hd, r, g, b) ==
    [idx |-> b + g * lutSize + r * lutSize * lutSize,
     s |-> HALDInterpolate(hd, F(r, lutSize - 1), F(g, lutSize - 1), F(b, lutSize - 1))]

\* one iteration of the loops: idx := r + g*lutSize + b*lutSize*lutSize and
\* the sample stored in c.Samples[idx]
convertSample(hd, r, g, b) ==
    [idx |-> r + g * lutSize + b * lutSize * lutSize,
     s |-> HALDInterpolate(hd, F(r, lutSize - 1), F(g, lutSize - 1), F(b, lutSize - 1))]

\* c.Apply(hald.Identity(12)) panics: a goroutine of ApplyScaled panics on
\* the first or on the last pixel of the identity (black, white)
ApplyIdentityPanics ==
    \E v \in {0, 65535} :
        cubePixel(arrays, c, [r |-> v, g |-> v, b |-> v, a |-> 65535], I(1), nanInt).panic

InitConvert ==
    /\ \/ /\ lut = "cube"
          /\ \E dom \in Domains :
                c = MkCube(<<LETTER>>, <<>>, 2, dom.min, dom.max, 1)
          /\ arrays = (1 :> [i \in 1..8 |-> SampleAt(0, i - 1)]) @@ (2 :> <<>>)
          /\ hald = ZeroHALD
          /\ nanInt \in {Int64(0), MinInt64}
       \/ /\ lut \in {"hald", "other"}
          /\ hald = (IF lut = "hald" THEN Identity(2) ELSE ZeroHALD)
          /\ c = MkCube(<<>>, <<>>, 0, ZeroSample, ZeroSample, 1)
          /\ arrays = (1 :> <<>>) @@ (2 :> <<>>)
          /\ nanInt = Int64(0)
    /\ img = NoImage
    /\ InitCall

\* convert has been called with an output path of extension outExt and is
\* where to says, with the error e
ConvertGoes(outExt, to, e) ==
    /\ pc = "idle" /\ call = NoCall
    /\ call' = [op |-> "convert", args |-> <<outExt>>]
    /\ pc' = to
    /\ err' = e
    /\ nops' = nops + 1

\* default: unsupported conversion
ConvertUnsupported ==
    /\ \E outExt \in Exts :
          /\ ~(lut = "cube" /\ outExt = ".png") /\ ~(lut = "hald" /\ outExt = ".cube")
          /\ ConvertGoes(outExt, "returned", "unsupported conversion")
    /\ UNCHANGED <<arrays, c, c2, pre, nanInt, result, text, lut, hald, img, out, colours,
                   files, nextY, wg, workers, writers>>

\* case lutExt == ".cube" && outExt == ".png": LoadFile, os.Create, then
\* png.Encode(f, c.Apply(hald.Identity(12))); the image that Apply returns
\* has the bounds of the identity
ConvertToPNG ==
    /\ lut = "cube"
    /\ \E loaded \in BOOLEAN, created \in BOOLEAN :
          IF ~loaded THEN ConvertGoes(".png", "returned", "load") /\ UNCHANGED <<result, files>>
          ELSE IF ~created
          THEN ConvertGoes(".png", "returned", "create") /\ UNCHANGED <<result, files>>
          ELSE IF ApplyIdentityPanics
          THEN /\ ConvertGoes(".png", "panic", "nil")
               /\ files' = files \cup {[ext |-> ".png", image |-> NilImage]}
               /\ result' = result
          ELSE /\ ConvertGoes(".png", "returned", "nil")
               /\ result' = [Rect |-> IdentityRect(ConvertLevel)]
               /\ files' = files \cup {[ext |-> ".png", image |-> [Rect |-> IdentityRect(ConvertLevel)]]}
    /\ UNCHANGED <<arrays, c, c2, pre, nanInt, text, lut, hald, img, out, colours,
                   nextY, wg, workers, writers>>

\* case lutExt == ".png" && outExt == ".cube", up to the loops: LoadFile,
\* the Cube with its lutSize^3 zero Samples, the title
ConvertToCube ==
    /\ lut = "hald"
    /\ \E loaded \in BOOLEAN, title \in {<<LETTER>>} :
          IF ~loaded
          THEN ConvertGoes(".cube", "returned", "load") /\ UNCHANGED <<c, result>>
          ELSE /\ ConvertGoes(".cube", "loop", "nil")
               /\ c' = MkCube(IF title = <<>> THEN <<LETTER, LETTER>> ELSE title, <<>>,
                               lutSize, UnitDomain.min, UnitDomain.max, 1)
               /\ result' = [len |-> lutSize * lutSize * lutSize, b |-> 0, g |-> 0, r |-> 0,
                              n |-> 0, idx |-> -1, s |-> ZeroSample]
    /\ UNCHANGED <<arrays, c2, pre, nanInt, text, lut, hald, img, out, colours,
                   files, nextY, wg, workers, writers>>

\* one iteration of the innermost loop, and the loop variables after it
ConvertStore ==
    /\ pc = "loop" /\ call.op = "convert"
    /\ result.b < lutSize
    /\ \E st \in { convertSample(hald, result.r, result.g, result.b) } :
          result' = [result EXCEPT
                        !.idx = st.idx, !.s = st.s, !.n = @ + 1,
                        !.r = IF @ + 1 < lutSize THEN @ + 1 ELSE 0,
                        !.g = IF result.r + 1 < lutSize THEN @
                              ELSE IF @ + 1 < lutSize THEN @ + 1 ELSE 0,
                        !.b = IF result.r + 1 < lutSize \/ result.g + 1 < lutSize
                              THEN @ ELSE @ + 1]
    /\ UNCHANGED <<arrays, c, c2, call, err, pre, nops, nanInt, text, lut, hald, img, out,
                   colours, files, pc, nextY, wg, workers, writers>>

\* after the loops: os.Create and c.WriteTo(f)
ConvertWrite ==
    /\ pc = "loop" /\ call.op = "convert"
    /\ result.b >= lutSize
    /\ pc' = "returned"
    /\ \E created \in BOOLEAN :
          IF created
          THEN /\ files' = files \cup {[ext |-> ".cube", cube |-> c, samples |-> result.len]}
               /\ err' = "nil"
          ELSE files' = files /\ err' = "create"
    /\ UNCHANGED <<arrays, c, c2, call, pre, nops, nanInt, result, text, lut, hald, img, out,
                   colours, nextY, wg, workers, writers>>

NextConvert ==
    ConvertUnsupported \/ ConvertToPNG \/ ConvertToCube \/ ConvertStore \/ ConvertWrite

SpecConvert == InitConvert /\ [][NextConvert]_vars

\* convert from .cube to .png has returned without an error
ConvertedToPNG ==
    /\ call.op = "convert" /\ lut = "cube" /\ call.args = <<".png">>
    /\ pc = "returned" /\ err = "nil"

C25_ConvertSamples ==
    (call.op = "convert" /\ lut = "hald" /\ call.args = <<".cube">>
     /\ pc \in {"loop", "returned"} /\ err # "load") =>
        /\ c.LUT3Dsize = 33
        /\ c.DomainMin = Smp(I(0), I(0), I(0)) /\ c.DomainMax = Smp(I(1), I(1), I(1))
        /\ result.len = 33 * 33 * 33
        /\ result.n \in 0..(33 * 33 * 33)
        /\ result.idx = result.n - 1
        /\ result.n > 0 =>
              result.s = HALDInterpolate(hald, F(result.idx % 33, 32),
                                         F((result.idx \div 33) % 33, 32),
                                         F(result.idx \div (33 * 33), 32))
        /\ pc = "returned" => result.n = 33 * 33 * 33
        /\ (pc = "returned" /\ err = "nil")
              => files = {[ext |-> ".cube", cube |-> c, samples |-> 33 * 33 * 33]}

C25_Witness ==
    /\ call.op = "convert" /\ lut = "hald" /\ pc = "returned" /\ err = "nil"
    /\ result.n = 35937 /\ result.idx = 35936
    /\ result.s = Smp(I(1), I(1), I(1))
    /\ files # {}

(***************************************************************************)
(* The blend command (main.go:262-290, cmd/prism/main.go:32-61).  c and c2  *)
(* are what cube.LoadFile returns for the two LUT paths when it succeeds;   *)
(* text is what the command prints on the standard output.                  *)
(***************************************************************************)

\* the samples of a Cube that Load accepts: 1 or 8 of them
LoadedSeqs ==
    { [i \in 1..n |-> p] : n \in {1, 8}, p \in Palette }
    \cup { [i \in 1..8 |-> SampleAt(seed, i - 1)] : seed \in Seeds }

\* -o, -out: no output path, or the path of a file
Outputs == {"", "out.cube"}

InitBlend ==
    /\ \E s1 \in LoadedSeqs, s2 \in LoadedSeqs, dom \in Domains :
          /\ arrays = (1 :> s1) @@ (2 :> s2)
          /\ c = MkCube(<<LETTER>>, <<>>, LevelFor(Len(s1)), dom.min, dom.max, 1)
          /\ c2 = MkCube(<<>>, <<>>, LevelFor(Len(s2)), UnitDomain.min, UnitDomain.max, 2)
          /\ pre = [arrays |-> (1 :> s1) @@ (2 :> s2), c |-> c, c2 |-> c2]
    /\ call = NoCall
    /\ err = "nil"
    /\ nops = 0
    /\ nanInt = Int64(0)
    /\ result = "none"
    /\ text = <<>>
    /\ NoApply

\* func blend() error, called with the option -clamp, the intensities w
\* of the two LUT arguments and the option -out; opt.clamp is parsed and
\* never read
BlendCommand ==
    /\ pc = "idle" /\ call = NoCall
    /\ \E clamp \in BOOLEAN, w \in WeightPairs, output \in Outputs,
          loaded1 \in BOOLEAN, loaded2 \in BOOLEAN, created \in BOOLEAN :
          /\ call' = [op |-> "blend", args |-> <<clamp, w[1], w[2], output>>]
          /\ IF ~loaded1 \/ ~loaded2
             THEN /\ pc' = "returned" /\ err' = "load"
                  /\ UNCHANGED <<arrays, text, files>>
             ELSE \E r \in { CubeBlend(arrays, c, c2, w[1], w[2]) } :
                     /\ arrays' = r.heap
                     /\ IF r.err # "nil"
                        THEN /\ pc' = "panic" /\ err' = r.err
                             /\ UNCHANGED <<text, files>>
                        ELSE IF output = ""
                        THEN /\ pc' = "returned" /\ err' = "nil"
                             /\ text' = WriteTo(r.heap, c) \o <<NL>>
                             /\ files' = files
                        ELSE IF ~created
                        THEN /\ pc' = "returned" /\ err' = "create"
                             /\ UNCHANGED <<text, files>>
                        ELSE /\ pc' = "returned" /\ err' = "nil"
                             /\ text' = text
                             /\ files' = files \cup {[ext |-> ".cube", text |-> WriteTo(r.heap, c)]}
    /\ pre' = Snapshot
    /\ nops' = nops + 1
    /\ UNCHANGED <<c, c2, nanInt, result, lut, hald, img, out, colours,
                   nextY, wg, workers, writers>>

NextBlend == BlendCommand

SpecBlend == InitBlend /\ [][NextBlend]_vars

\* blend has returned without an error
Blended == call.op = "blend" /\ pc = "returned" /\ err = "nil"

\* the samples after c1.MustBlend(c2, i1, i2) of the LUTs loaded
BlendedHeap == CubeBlend(pre.arrays, pre.c, pre.c2, call.args[2], call.args[3]).heap

\* what the option -clamp promises to write
PromisedOutput ==
    WriteTo(IF call.args[1] THEN CubeClamp(BlendedHeap, c) ELSE BlendedHeap, c)

\* C26: when blend returns without an error, what it has written (to the
\* file of -out, or to the standard output) is the blended LUT clamped if
\* -clamp is true and the blended LUT as it is if -clamp is false.
C26_ClampOptionHonoured ==
    Blended =>
        IF call.args[4] = ""
        THEN text = PromisedOutput \o <<NL>>
        ELSE files = {[ext |-> ".cube", text |-> PromisedOutput]}

(***************************************************************************)
(* The loops of Identity (part_000:248-270), one iteration at a time, and   *)
(* HALD.sample on the image they leave.  result holds the loop variables;   *)
(* writers[p] is the sequence of the coordinates <<r, g, b>> whose          *)
(* iteration has set the pixel p.                                           *)
(***************************************************************************)

\* the pixel of an iteration with the green axis given the stride of the
\* red one
identityPointShortStride(level, r, g, b) ==
    LET cube == level * level
        size == level * level * level
        idx == b * cube * cube + g + r
    IN  <<idx % size, idx \div size>>

\* idx := b*cube*cube + g*cube + r; x := idx % size; y := idx / size
identityPoint(level, r, g, b) ==
    LET cube == level * level
        size == level * level * level
        idx == b * cube * cube + g * cube + r
    IN  <<idx % size, idx \div size>>

\* color.RGBA{R: R, G: G, B: B, A: 255} of an iteration, as its RGBA()
identityColour(level, r, g, b) ==
    LET den == I(level * level - 1)
        v(k) == Uint8(FMul(FDiv(I(k), den), I(255)), Int64(0)) * 257
    IN  [r |-> v(r), g |-> v(g), b |-> v(b), a |-> 65535]

\* img := image.NewRGBA(image.Rect(0, 0, size, size)), before the loops
InitIdentityLoop ==
    /\ \E N \in 2..MaxHaldLevel :
          /\ hald = [Image |-> [Rect |-> IdentityRect(N),
                                Pix |-> [p \in Points(IdentityRect(N)) |->
                                           [r |-> 0, g |-> 0, b |-> 0, a |-> 0]]],
                     level |-> N]
          /\ writers = [p \in Points(IdentityRect(N)) |-> <<>>]
    /\ lut = "hald"
    /\ c = MkCube(<<>>, <<>>, 0, ZeroSample, ZeroSample, 1)
    /\ arrays = (1 :> <<>>) @@ (2 :> <<>>)
    /\ nanInt = Int64(0)
    /\ img = NoImage
    /\ c2 = c
    /\ pre = Snapshot
    /\ call = NoCall
    /\ err = "nil"
    /\ nops = 0
    /\ result = [b |-> 0, g |-> 0, r |-> 0]
    /\ text = <<>>
    /\ out = NoImage
    /\ colours = <<>>
    /\ files = {}
    /\ pc = "loop"
    /\ nextY = 0
    /\ wg = 0
    /\ workers = <<>>

\* one iteration of the innermost loop of Identity
IdentityStore ==
    /\ pc = "loop"
    /\ result.b < hald.level * hald.level
    /\ \E p \in { identityPoint(hald.level, result.r, result.g, result.b) } :
          /\ hald' = [hald EXCEPT !.Image = SetRGBA(@, p[1], p[2],
                         identityColour(hald.level, result.r, result.g, result.b))]
          /\ writers' = IF p \in DOMAIN writers
                        THEN [writers EXCEPT ![p] = Append(@, <<result.r, result.g, result.b>>)]
                        ELSE writers
    /\ \E cube \in { hald.level * hald.level } :
          result' = [r |-> IF result.r + 1 < cube THEN result.r + 1 ELSE 0,
                     g |-> IF result.r + 1 < cube THEN result.g
                           ELSE IF result.g + 1 < cube THEN result.g + 1 ELSE 0,
                     b |-> IF result.r + 1 < cube \/ result.g + 1 < cube
                           THEN result.b ELSE result.b + 1]
    /\ UNCHANGED <<arrays, c, c2, call, err, pre, nops, nanInt, text, lut, img, out,
                   colours, files, pc, nextY, wg, workers>>

\* return HALD{Image: img, level: N}
IdentityReturn ==
    /\ pc = "loop"
    /\ result.b >= hald.level * hald.level
    /\ pc' = "returned"
    /\ UNCHANGED <<arrays, c, c2, call, err, pre, nops, nanInt, result, text, lut, hald,
                   img, out, colours, files, nextY, wg, workers, writers>>

\* h.sample(r, g, b) on the HALD that Identity has returned
SampleCall ==
    /\ pc = "returned" /\ call = NoCall
    /\ \E r \in 0..(hald.level * hald.level - 1), g \in 0..(hald.level * hald.level - 1),
          b \in 0..(hald.level * hald.level - 1) :
          /\ call' = [op |-> "sample", args |-> <<r, g, b>>]
          /\ result' = sample(hald, r, g, b)
    /\ nops' = nops + 1
    /\ UNCHANGED <<arrays, c, c2, err, pre, nanInt, text, lut, hald, img, out, colours,
                   files, pc, nextY, wg, workers, writers>>

NextIdentityLoop == IdentityStore \/ IdentityReturn \/ SampleCall

SpecIdentityLoop == InitIdentityLoop /\ [][NextIdentityLoop]_vars

\* C27: in the cubic layout of level N the iterations of Identity for the
\* coordinates (r, g, b) in [0, N^2-1]^3 set pairwise different pixels
\* (idx mod N^3, idx div N^3), idx = b*N^4 + g*N^2 + r, and together every
\* pixel of the N^3 x N^3 image, and HALD.sample(r, g, b) reads the pixel
\* that the iteration for (r, g, b) has set.
C27_LayoutIsBijection ==
    /\ \A p \in DOMAIN writers : Len(writers[p]) <= 1
    /\ pc = "returned" =>
          /\ DOMAIN writers = Points(IdentityRect(hald.level))
          /\ \A p \in DOMAIN writers : Len(writers[p]) = 1
          /\ \A r, g, b \in 0..(hald.level * hald.level - 1) :
                writers[identityPoint(hald.level, r, g, b)] = << <<r, g, b>> >>
    /\ (pc = "returned" /\ call = NoCall) => hald = Identity(hald.level)
    /\ call.op = "sample" =>
          /\ writers[identityPoint(hald.level, call.args[1], call.args[2], call.args[3])]
                = <<call.args>>
          /\ result = identityColour(hald.level, call.args[1], call.args[2], call.args[3])

C27_Witness ==
    /\ call.op = "sample" /\ hald.level = 3
    /\ call.args = <<8, 0, 5>>
    /\ result = [r |-> 65535, g |-> 0, b |-> 159 * 257, a |-> 65535]
    /\ writers[<<8, 15>>] = << <<8, 0, 5>> >>

(***************************************************************************)
(* The corners that interpolate passes to getSample (part_003:237-296),     *)
(* for the Cubes a grid file can give: the domains of the other             *)
(* specifications and one with "DOMAIN_MIN -Inf 0 0", which Sscanf's %f     *)
(* reads as minus infinity.                                                *)
(***************************************************************************)

CornerDomains ==
    Domains \cup { [min |-> Smp(NegInf, I(0), I(0)), max |-> Smp(I(1), I(1), I(1))] }

CornerInputs == { F(-3, 2), F(1, 4), I(1), I(2), F(5, 2) }

InitCorners ==
    /\ \E n \in 1..MaxLevel, short \in BOOLEAN, dom \in CornerDomains :
          /\ arrays = (1 :> [i \in 1..(IF short THEN n * n * n - 1 ELSE n * n * n) |->
                               SampleAt(0, i - 1)]) @@ (2 :> <<>>)
          /\ c = MkCube(<<LETTER>>, <<HASH, LETTER>>, n, dom.min, dom.max, 1)
          /\ \E r \in CornerInputs, g \in CornerInputs, b \in CornerInputs :
                call = [op |-> "interpolate", args |-> <<r, g, b>>]
    /\ c2 = c
    /\ pre = Snapshot
    /\ nanInt \in {Int64(0), MinInt64}
    /\ err = "nil"
    /\ nops = 0
    /\ result = Panic
    /\ text = <<>>
    /\ NoApply

SpecCorners == InitCorners /\ [][NextInterp]_vars

\* r0, r1 and rFrac of the call, for the channel number i
AxisOf(i) ==
    axis(call.args[i], c.DomainMin[ChannelOf(i)], c.DomainMax[ChannelOf(i)],
         I(Level - 1), nanInt)

\* the int k is one of 0..N-1
OnLattice(k) == k.hi = 0 /\ k.lo \in 0..(Level - 1)

\* idx := r + g*c.LUT3Dsize + b*c.LUT3Dsize*c.LUT3Dsize of getSample
FlatIndex(r, g, b) == IAdd(IAdd(r, IMul(g, Level)), IMul(IMul(b, Level), Level))

\* the corners of the call: r0 or r1 with g0 or g1 with b0 or b1
Corners ==
    { <<r, g, b>> : r \in {AxisOf(1).i0, AxisOf(1).i1}, g \in {AxisOf(2).i0, AxisOf(2).i1},
                    b \in {AxisOf(3).i0, AxisOf(3).i1} }

\* C28: for a Cube with len(Samples) = N^3, N >= 2 and DomainMax >
\* DomainMin, every corner that interpolate passes to getSample is in
\* [0, N-1] on each axis, for every input (r0 = r1 = N-1 for an input at or
\* above DomainMax), the flat index is in [0, N^3-1], and getSample neither
\* takes its zero-sample fallback nor indexes outside Samples.
C28_CornersOnLattice ==
    (Interpolated /\ WellFormed) =>
        /\ \A k \in Corners :
              /\ OnLattice(k[1]) /\ OnLattice(k[2]) /\ OnLattice(k[3])
              /\ FlatIndex(k[1], k[2], k[3]).hi = 0
              /\ FlatIndex(k[1], k[2], k[3]).lo \in 0..(Level * Level * Level - 1)
              /\ ~IGe(FlatIndex(k[1], k[2], k[3]), NumSamples(arrays, c))
        /\ \A i \in 1..3 :
              FLe(c.DomainMax[ChannelOf(i)], call.args[i]) =>
                  AxisOf(i).i0 = Int64(Level - 1) /\ AxisOf(i).i1 = Int64(Level - 1)
        /\ ~result.panic

(***************************************************************************)
(* The apply command (main.go:308-349).  lut is the extension of the LUT    *)
(* path: "cube" for .cube, "hald" for .png, "other" for another extension,  *)
(* "none" for a path without one.  After loadLut, result.lut says what the  *)
(* variable lut of apply holds ("nil", or the kind of the value), c or hald *)
(* is that value, and call.args[2] is the error loadLut returned, which     *)
(* apply overwrites with the error of os.Open.                              *)
(***************************************************************************)

\* the images image.Decode can return
DecodedImages == { m \in Images : Dy(m.Rect) >= 1 }

\* Cube{}, what cube.LoadFile returns with an error
ZeroCube == MkCube(<<>>, <<>>, 0, ZeroSample, ZeroSample, 1)

InitApplyCmd ==
    /\ lut \in {"cube", "hald", "other", "none"}
    /\ \/ /\ lut = "cube"
          /\ \E dom \in Domains :
                c = MkCube(<<LETTER>>, <<>>, 2, dom.min, dom.max, 1)
          /\ arrays = (1 :> [i \in 1..8 |-> SampleAt(0, i - 1)]) @@ (2 :> <<>>)
          /\ hald = ZeroHALD
          /\ nanInt \in {Int64(0), MinInt64}
       \/ /\ lut # "cube"
          /\ hald \in (IF lut = "hald" THEN Halds ELSE {ZeroHALD})
          /\ c = ZeroCube
          /\ arrays = (1 :> <<>>) @@ (2 :> <<>>)
          /\ nanInt = Int64(0)
    /\ img \in DecodedImages
    /\ InitCall

\* func loadLut(path string) (LUTApplicator, error): lutExt[1:] panics for
\* the empty extension; LoadFile returns a zero value with its error
loadLut(loaded) ==
    IF lut = "none" THEN [panic |-> TRUE, lut |-> "nil", err |-> "panic"]
    ELSE IF lut = "other" THEN [panic |-> FALSE, lut |-> "nil", err |-> "unsupported lut type"]
    ELSE [panic |-> FALSE, lut |-> lut, err |-> IF loaded THEN "nil" ELSE "load"]

\* opt := parseApplyOpts(); lut, err := loadLut(opt.lut)
LoadLut ==
    /\ pc = "idle" /\ call = NoCall
    /\ \E t \in Intensities, loaded \in BOOLEAN :
          \E r \in { loadLut(loaded) } :
             /\ call' = [op |-> "apply", args |-> <<t, r.err>>]
             /\ err' = r.err
             /\ pc' = IF r.panic THEN "panic" ELSE "loaded"
             /\ result' = [lut |-> r.lut, applied |-> FALSE]
             /\ c' = IF lut = "cube" /\ ~loaded THEN ZeroCube ELSE c
             /\ arrays' = IF lut = "cube" /\ ~loaded THEN (1 :> <<>>) @@ (2 :> <<>>) ELSE arrays
             /\ hald' = IF lut = "hald" /\ ~loaded THEN ZeroHALD ELSE hald
    /\ nops' = nops + 1
    /\ UNCHANGED <<c2, pre, nanInt, text, lut, img, out, colours, files,
                   nextY, wg, workers, writers>>

\* apply has returned the error e, or nil
ApplyReturns(e) ==
    /\ pc' = "returned" /\ err' = e

\* the rest of apply: os.Open, image.Decode, lut.ApplyScaled, os.Create and
\* encodeImg.  A panic in ApplyScaled or in one of its goroutines ends the
\* program.
ApplyRest ==
    /\ pc = "loaded" /\ call.op = "apply"
    /\ \E opened \in BOOLEAN, decoded \in BOOLEAN, created \in BOOLEAN :
          IF ~opened THEN ApplyReturns("open") /\ UNCHANGED <<result, out, files>>
          ELSE IF ~decoded THEN ApplyReturns("decode") /\ UNCHANGED <<result, out, files>>
          ELSE /\ result' = [result EXCEPT !.applied = TRUE]
               /\ IF result.lut = "nil" \/ (result.lut = "hald" /\ hald = ZeroHALD)
                  THEN pc' = "panic" /\ UNCHANGED <<err, out, files>>
                  ELSE \E cols \in { [p \in Points(img.Rect) |->
                                        processPixel(At(img, p[1], p[2]),
                                                     clampIntensity(call.args[1]))] } :
                          IF \E p \in Points(img.Rect) : cols[p].panic
                          THEN pc' = "panic" /\ UNCHANGED <<err, out, files>>
                          ELSE /\ out' = [Rect |-> img.Rect,
                                          Pix |-> [p \in Points(img.Rect) |-> cols[p].col]]
                               /\ IF created
                                  THEN /\ ApplyReturns("nil")
                                       /\ files' = files \cup {[ext |-> ".prism", image |-> out']}
                                  ELSE ApplyReturns("create") /\ files' = files
    /\ UNCHANGED <<arrays, c, c2, call, pre, nops, nanInt, text, lut, hald, img, colours,
                   nextY, wg, workers, writers>>

NextApplyCmd == LoadLut \/ ApplyRest

SpecApplyCmd == InitApplyCmd /\ [][NextApplyCmd]_vars

\* loadLut did not return a LUT: it returned an error or it panicked
LutNotLoaded == call.op = "apply" /\ call.args[2] # "nil"

\* C30: when the LUT cannot be loaded (an unsupported extension, no
\* extension, a file that fails to load) apply does not crash, returns an
\* error, creates no output file and never reaches the call of ApplyScaled.
C30_LoadFailureIsReturned ==
    LutNotLoaded =>
        /\ pc # "panic"
        /\ ~result.applied
        /\ pc = "returned" => (err # "nil" /\ files = {})

====
